---- MODULE Spec2Model ----
(***************************************************************************)
(* Osteoporosis risk engine: the rule-based tabular scorer, the document   *)
(* field extractor, the image density analyzer, the fallback generators,   *)
(* the four route handlers and the model loader, modelled from             *)
(* backend/models and backend/app.                                         *)
(*                                                                         *)
(* Numbers are fixed point integers:                                       *)
(*   feature values and risk      tenths            (65 years = 650)       *)
(*   confidence                   1e-4              (0.72 = 7200)          *)
(*   t_score                      1e-2              (-2.8 = -280)          *)
(*   bmd                          1e-3              (0.95 = 950)           *)
(* Python's round() is modelled as round-half-up on the exact rational.    *)
(***************************************************************************)
EXTENDS Integers, Sequences, FiniteSets, TLC

VARIABLES features, doc, model, scaler, columns, oracle, rng, pc, resp, prev,
          image, xray_model, cnn, arg

vars == <<features, doc, model, scaler, columns, oracle, rng, pc, resp, prev,
         image, xray_model, cnn, arg>>

Labels == {"Normal", "Osteopenia", "Osteoporosis"}

None == "None"

NoResp ==
    [status |-> "none", prediction |-> "", confidence |-> 0, t_score |-> 0,
     bmd |-> 0, src |-> "", n |-> 0, extracted |-> {},
     fracture_risk |-> "", suggestions |-> 0, medications |-> 0]

\* a component's return value (label, confidence, t_score, bmd)
Returned(t) ==
    [NoResp EXCEPT !.status = "returned", !.prediction = t[1],
                   !.confidence = t[2], !.t_score = t[3], !.bmd = t[4]]

NoDoc == [pdf |-> FALSE, tokens |-> <<>>]

NoOracle == [raises |-> FALSE, cls |-> 0, p0 |-> 0]

NoPrev == [features |-> <<>>, resp |-> NoResp]

\* an upload of zero bytes
NoImage == [kind |-> "empty", hist |-> <<0, 0, 0, 0, 0, 0, 0>>, edge |-> 0, entropy |-> 0]

NoCnn == [raises |-> FALSE, proba |-> <<10000, 0, 0>>]

NoArg == [fn |-> "none"]

----------------------------------------------------------------------------
(* Arithmetic helpers *)

Min(a, b) == IF a < b THEN a ELSE b

Max(a, b) == IF a > b THEN a ELSE b

Abs(a) == IF a < 0 THEN -a ELSE a

\* round(n / d) for d > 0
RoundDiv(n, d) == (2 * n + d) \div (2 * d)

\* int(x) on a value held in tenths: truncation toward zero
IntOf(v) == IF v >= 0 THEN v \div 10 ELSE -((-v) \div 10)

RECURSIVE SumSeq(_)
SumSeq(s) == IF s = <<>> THEN 0 ELSE Head(s) + SumSeq(Tail(s))

----------------------------------------------------------------------------
(* models/manual_rule_model.py *)

_age_score_flat(age) ==
    IF age < 400 THEN 0
    ELSE IF age < 500 THEN 10
    ELSE IF age < 600 THEN 25
    ELSE IF age < 700 THEN 15
    ELSE 60

_age_score(age) ==
    IF age < 400 THEN 0
    ELSE IF age < 500 THEN 10
    ELSE IF age < 600 THEN 25
    ELSE IF age < 700 THEN 45
    ELSE 60

\* bmi is the rational num/den (den > 0); thresholds 17.5, 18.5, 22.0, 30.0
_bmi_score(num, den) ==
    IF 10 * num < 175 * den THEN 30
    ELSE IF 10 * num < 185 * den THEN 20
    ELSE IF 10 * num < 220 * den THEN 10
    ELSE IF 10 * num < 300 * den THEN 0
    ELSE 5

\* weight, height in tenths; result is the pair <<num, den>> of kg/m2
_derive_bmi(weight, height) ==
    IF height <= 0 THEN <<22, 1>>
    ELSE <<weight * 100000, height * height>>

\* f = list(features) + [0] * 14 ; f = f[:14]
PadTruncate(fs) == SubSeq(fs \o [i \in 1..14 |-> 0], 1, 14)

LOW_THRESH == 60

HIGH_THRESH == 130

\* the accumulated risk of the padded vector f, in tenths
AccumulatedRisk(f) ==
    LET age       == f[1]
        gender    == IntOf(f[2])
        bmi       == IF f[5] > 50 THEN <<f[5], 10>> ELSE _derive_bmi(f[3], f[4])
        ca_intake == IntOf(f[6])
        vit_d     == IntOf(f[7])
        activity  == IntOf(f[8])
        smoking   == IntOf(f[9])
        alcohol   == IntOf(f[10])
        fam_hist  == IntOf(f[11])
        prev_frac == IntOf(f[12])
        menopause == IntOf(f[13])
        steroid   == IntOf(f[14])
    IN  _age_score(age)
        + _bmi_score(bmi[1], bmi[2])
        + (IF gender = 0 THEN 15 ELSE 0)
        + (IF menopause = 1 THEN 25 ELSE 0)
        + (IF ca_intake = 0 THEN 15 ELSE IF ca_intake = 1 THEN 5 ELSE 0)
        + (IF vit_d = 0 THEN 15 ELSE 0)
        + (IF activity = 0 THEN 15 ELSE IF activity = 1 THEN 5 ELSE 0)
        + (IF smoking = 1 THEN 15 ELSE 0)
        + (IF alcohol = 2 THEN 10 ELSE IF alcohol = 1 THEN 3 ELSE 0)
        + (IF fam_hist = 1 THEN 20 ELSE 0)
        + (IF prev_frac = 1 THEN 30 ELSE 0)
        + (IF steroid = 1 THEN 25 ELSE 0)

RiskLabel_strict(risk) ==
    IF risk <= LOW_THRESH THEN "Normal"
    ELSE IF risk <= HIGH_THRESH THEN "Osteopenia"
    ELSE "Osteoporosis"

RiskLabel(risk) ==
    IF risk < LOW_THRESH THEN "Normal"
    ELSE IF risk <= HIGH_THRESH THEN "Osteopenia"
    ELSE "Osteoporosis"

RiskConfidence_unclamped(risk) ==
    IF risk < LOW_THRESH
        THEN RoundDiv(29100 - 125 * risk, 3)
    ELSE IF risk <= HIGH_THRESH
        THEN RoundDiv(63000 - 300 * Abs(risk - 95), 7)
    ELSE 7400 + 30 * (risk - HIGH_THRESH)

\* confidence in 1e-4 after the clamp to [0.70, 0.99] and round(.., 4)
RiskConfidence(risk) ==
    LET raw == IF risk < LOW_THRESH
                   \* 0.72 + 0.25 * (1 - risk/6)
                   THEN RoundDiv(29100 - 125 * risk, 3)
               ELSE IF risk <= HIGH_THRESH
                   \* 0.75 + 0.15 * (1 - |risk - 9.5| / 3.5)
                   THEN RoundDiv(63000 - 300 * Abs(risk - 95), 7)
               \* 0.74 + 0.24 * min((risk - 13)/8, 1)
               ELSE 7400 + 30 * Min(risk - HIGH_THRESH, 80)
    IN  Max(7000, Min(9900, raw))

score_features_sum_all(fs) ==
    LET f    == PadTruncate(fs)
        risk == AccumulatedRisk(f)
        s    == SumSeq(fs)
        m    == (s * 73) % 100
        m2   == (s * 37) % 100
    IN  <<RiskLabel(risk),
          RiskConfidence(risk),
          RoundDiv(9450 - 500 * risk + 81 * m, 270),
          RoundDiv(Max(400 * 54, Min(1200 * 54, 55350 - 130 * risk + 27 * m2)), 54)>>

\* score_features(features) -> (label, confidence, t_score, bmd)
score_features(fs) ==
    LET f    == PadTruncate(fs)
        risk == AccumulatedRisk(f)
        s    == SumSeq(f)
        \* (sum(f) * 7.3) % 1.0 and (sum(f) * 3.7) % 1.0, in hundredths
        m    == (s * 73) % 100
        m2   == (s * 37) % 100
    IN  <<RiskLabel(risk),
          RiskConfidence(risk),
          \* round(0.5 - (risk/27)*5 + (m - 0.5)*0.3, 2)
          RoundDiv(9450 - 500 * risk + 81 * m, 270),
          \* round(max(0.4, min(1.2, 1.05 - (risk/27)*0.65 + (m2 - 0.5)*0.05)), 3)
          RoundDiv(Max(400 * 54, Min(1200 * 54, 55350 - 130 * risk + 27 * m2)), 54)>>

----------------------------------------------------------------------------
(* models/report_nlp_model.py *)
(* A document is a sequence of phrases (joined by single spaces) and a     *)
(* flag telling whether it is a .pdf whose pages yield that text.  The     *)
(* regular expressions are modelled by the phrases each of them matches.   *)

_MIN_FEATURES_FOR_MANUAL == 4

Tokens ==
    {"patient", "wt", "ht", "frac", "t58", "t28", "t25", "t18", "tbad",
     "z", "bmd", "bmdhi", "kwop", "kwpen", "kwnorm", "habits", "filler"}

\* number of characters of each phrase
TokenLen ==
    [t \in Tokens \cup {"pdfbytes"} |->
        CASE t = "patient"  -> 33      \* "67 year old postmenopausal female"
          [] t = "wt"       -> 13      \* "weight: 58 kg"
          [] t = "ht"       -> 14      \* "height: 162 cm"
          [] t = "frac"     -> 17      \* "previous fracture"
          [] t = "t58"      -> 13      \* "T-score: -5.8"
          [] t = "t28"      -> 13      \* "T-score: -2.8"
          [] t = "t25"      -> 13      \* "T-score: -2.5"
          [] t = "t18"      -> 13      \* "T-score: -1.8"
          [] t = "tbad"     -> 12      \* "T-score: 7.5"
          [] t = "z"        -> 13      \* "Z-score: -2.0"
          [] t = "bmd"      -> 10      \* "BMD: 0.710"
          [] t = "bmdhi"    -> 10      \* "BMD: 1.500"
          [] t = "kwop"     -> 12      \* "osteoporosis"
          [] t = "kwpen"    -> 10      \* "osteopenia"
          [] t = "kwnorm"   -> 6       \* "normal"
          [] t = "habits"   -> 28      \* "sedentary smoker, no alcohol"
          [] t = "filler"   -> 40      \* "densitometry examination of lumbar spine"
          [] t = "pdfbytes" -> 44]     \* the printable bytes of a PDF container

\* position of a phrase in the alphabet, used by the digest
TokenCode ==
    [t \in Tokens \cup {"pdfbytes"} |->
        CASE t = "patient" -> 1 [] t = "wt" -> 2 [] t = "ht" -> 3
          [] t = "habits" -> 4 [] t = "kwpen" -> 16 [] t = "t58" -> 17
          [] t = "bmdhi" -> 18
          [] t = "frac" -> 5 [] t = "t28" -> 6
          [] t = "t25" -> 7 [] t = "t18" -> 8 [] t = "tbad" -> 9
          [] t = "z" -> 10 [] t = "bmd" -> 11 [] t = "kwop" -> 12
          [] t = "kwnorm" -> 13 [] t = "filler" -> 14 [] t = "pdfbytes" -> 15]

\* len(" ".join(phrases))
RECURSIVE TextLen(_)
TextLen(text) ==
    IF text = <<>> THEN 0
    ELSE TokenLen[Head(text)] + (IF Len(text) > 1 THEN 1 ELSE 0) + TextLen(Tail(text))

\* the bytes of the upload decoded as text
ContentText(d) == IF d.pdf THEN <<"pdfbytes">> ELSE d.tokens

\* pdfplumber's page text ("" when the file is no PDF)
_pdf_text(d) == IF d.pdf THEN d.tokens ELSE <<>>

\* printable text, usable only with more than 30 characters
_raw_text(d) == IF TextLen(ContentText(d)) > 30 THEN ContentText(d) ELSE <<>>

extract_text(d) ==
    IF d.pdf /\ _pdf_text(d) # <<>> THEN _pdf_text(d) ELSE _raw_text(d)

\* re.search: the value of the first phrase of text that the pattern matches;
\* <<>> is None, <<v>> a match
RECURSIVE FirstMatch(_, _)
FirstMatch(text, table) ==
    IF text = <<>> THEN <<>>
    ELSE IF Head(text) \in DOMAIN table THEN <<table[Head(text)]>>
    ELSE FirstMatch(Tail(text), table)

InRange(r, lo, hi) == IF r # <<>> /\ lo <= r[1] /\ r[1] <= hi THEN r ELSE <<>>

_age(text) == InRange(FirstMatch(text, [t \in {"patient"} |-> 670]), 100, 1100)

_gender(text) == FirstMatch(text, [t \in {"patient"} |-> 0])

_weight(text) == InRange(FirstMatch(text, [t \in {"wt"} |-> 580]), 200, 3000)

_height(text) == InRange(FirstMatch(text, [t \in {"ht"} |-> 1620]), 1000, 2200)

\* round(weight / ((height / 100) ** 2), 1), in tenths
BmiOf(weight, height) == RoundDiv(weight * 1000000, height * height)

\* no phrase states a BMI; it is computed when weight and height are found
_bmi(text, weight_r, height_r) ==
    IF weight_r # <<>> /\ height_r # <<>> /\ weight_r[1] # 0 /\ height_r[1] # 0
    THEN InRange(<<BmiOf(weight_r[1], height_r[1])>>, 100, 600)
    ELSE <<>>

_calcium(text) == FirstMatch(text, <<>>)

_vitamin_d(text) == FirstMatch(text, <<>>)

_activity(text) == FirstMatch(text, [t \in {"habits"} |-> 0])

_smoking(text) == FirstMatch(text, [t \in {"habits"} |-> 10])

_alcohol(text) == FirstMatch(text, [t \in {"habits"} |-> 0])

_family_history(text) == FirstMatch(text, <<>>)

_prev_fracture(text) == FirstMatch(text, [t \in {"frac"} |-> 10])

_menopause(text) == FirstMatch(text, [t \in {"patient"} |-> 10])

_steroids(text) == FirstMatch(text, <<>>)

_T_SCORE_RE ==
    [t \in {"t58", "t28", "t25", "t18", "tbad"} |->
        CASE t = "t58" -> -580 [] t = "t28" -> -280 [] t = "t25" -> -250
          [] t = "t18" -> -180 [] t = "tbad" -> 750]

_Z_SCORE_RE == [t \in {"z"} |-> -200]

_BMD_RE == [t \in {"bmd", "bmdhi"} |-> IF t = "bmd" THEN 710 ELSE 1500]

\* (phrases matched, label or "", weight in tenths), in list order
_DIAG_KEYWORDS ==
    << [toks |-> {"kwop"},   label |-> "Osteoporosis", w |-> 30],
       [toks |-> {"kwpen"},  label |-> "Osteopenia",   w |-> 0],
       [toks |-> {},         label |-> "Normal",       w |-> 0],
       [toks |-> {"kwnorm"}, label |-> "Normal",       w |-> 0],
       [toks |-> {},         label |-> "Osteopenia",   w |-> 0],
       [toks |-> {"frac"},   label |-> "",             w |-> 15],
       [toks |-> {},         label |-> "",             w |-> 10],
       [toks |-> {"patient"}, label |-> "",            w |-> 12],
       [toks |-> {},         label |-> "",             w |-> 8] >>

Range(text) == {text[i] : i \in DOMAIN text}

KwMatches(text, k) == _DIAG_KEYWORDS[k].toks \cap Range(text) # {}

\* variant: the label of the labelled keyword that occurs first in the text
KeywordScan_text_order(text, k, lab, risk) ==
    LET kwLabel == [t \in {"kwop", "kwpen", "kwnorm"} |->
                       CASE t = "kwop" -> "Osteoporosis"
                         [] t = "kwpen" -> "Osteopenia"
                         [] t = "kwnorm" -> "Normal"]
        first   == FirstMatch(text, kwLabel)
        w(j)    == IF _DIAG_KEYWORDS[j].toks \cap Range(text) # {}
                       THEN _DIAG_KEYWORDS[j].w ELSE 0
    IN  <<IF first = <<>> THEN "" ELSE first[1],
          w(1) + w(2) + w(3) + w(4) + w(5) + w(6) + w(7) + w(8) + w(9)>>

\* the keyword scan: <<keyword_label or "", keyword_risk>>
RECURSIVE KeywordScan(_, _, _, _)
KeywordScan(text, k, lab, risk) ==
    IF k > Len(_DIAG_KEYWORDS) THEN <<lab, risk>>
    ELSE IF KwMatches(text, k)
        THEN KeywordScan(text, k + 1,
                 IF _DIAG_KEYWORDS[k].label # "" /\ lab = ""
                     THEN _DIAG_KEYWORDS[k].label ELSE lab,
                 risk + _DIAG_KEYWORDS[k].w)
    ELSE KeywordScan(text, k + 1, lab, risk)

\* _label_from_t(t) -> (label, confidence); t in 1e-2
_label_from_t(t) ==
    IF t >= -100
        THEN <<"Normal", Min(9700, 8200 + Min(1500, (t + 100) * 5))>>
    ELSE IF t >= -250
        THEN <<"Osteopenia", Min(9500, 9500 - 16 * Abs(t + 175))>>
    ELSE <<"Osteoporosis", Min(9700, 8000 + Min(1700, Abs(t + 250) * 6))>>

\* round((bmd - 0.95) / 0.12, 2)
_t_from_bmd(bmd) == RoundDiv((bmd - 950) * 10, 12)

\* round(0.95 + t * 0.12, 3)
_bmd_from_t(t) == RoundDiv(9500 + 12 * t, 10)

\* Stand-in for hashlib.sha256(content + filename): a deterministic digest
\* of the phrases and the file kind; <<leading 8 hex digits, next 4 hex
\* digits>> scaled to 0..1000
RECURSIVE Fold(_, _)
Fold(text, h) ==
    IF text = <<>> THEN h
    ELSE Fold(Tail(text), (h * 31 + TokenCode[Head(text)]) % 1009)

Digest(d) ==
    LET h == Fold(d.tokens, IF d.pdf THEN 11 ELSE 7)
    IN  <<h % 1001, (h * 17 + 3) % 1001>>

\* _hash_fallback given the two digest scalars (thousandths)
HashBands(hv, jit) ==
    LET lab == IF hv < 400 THEN "Normal"
               ELSE IF hv < 750 THEN "Osteopenia" ELSE "Osteoporosis"
        t   == IF hv < 400 THEN RoundDiv(-3000 - 15 * hv, 100)
               ELSE IF hv < 750 THEN RoundDiv(-1100 - 2 * hv, 10)
               ELSE RoundDiv(-26000 - 15 * hv, 100)
        b   == IF hv < 400 THEN RoundDiv(9200 + hv, 10)
               ELSE IF hv < 750 THEN RoundDiv(80000 - 15 * hv, 100)
               ELSE RoundDiv(6500 - 2 * hv, 10)
        cb  == IF hv < 400 THEN 7100 ELSE IF hv < 750 THEN 7000 ELSE 6900
    IN  <<lab, Min(9300, RoundDiv(10 * cb + 12 * jit, 10)), Max(-550, t), Max(400, b)>>

_hash_fallback(d) == HashBands(Digest(d)[1], Digest(d)[2])

FieldNames ==
    <<"Age", "Gender", "Weight", "Height", "BMI", "Calcium Intake", "Vitamin D",
      "Physical Activity", "Smoking", "Alcohol", "Family History",
      "Previous Fracture", "Menopause", "Steroid Use">>

\* field_map: the 14 extractor results in feature order
FieldMap(text) ==
    LET weight_r == _weight(text)
        height_r == _height(text)
    IN  <<_age(text), _gender(text), weight_r, height_r,
          _bmi(text, weight_r, height_r), _calcium(text), _vitamin_d(text),
          _activity(text), _smoking(text), _alcohol(text),
          _family_history(text), _prev_fracture(text), _menopause(text),
          _steroids(text)>>

\* the keys put into extracted_data by the loop over field_map
FieldKeys(text) ==
    LET fm == FieldMap(text)
    IN  {FieldNames[i] : i \in {j \in 1..14 : fm[j] # <<>>}}

FoundT_z_first(text) ==
    LET t_match == InRange(FirstMatch(text, _T_SCORE_RE), -600, 300)
        z_match == InRange(FirstMatch(text, _Z_SCORE_RE), -500, 300)
    IN  IF z_match # <<>> THEN <<z_match[1] - 100>>
        ELSE IF t_match # <<>> THEN t_match
        ELSE <<>>

\* found_t: the direct T-score, else the converted Z-score; <<>> is None
FoundT(text) ==
    LET t_match == InRange(FirstMatch(text, _T_SCORE_RE), -600, 300)
        z_match == InRange(FirstMatch(text, _Z_SCORE_RE), -500, 300)
    IN  IF t_match # <<>> THEN t_match
        ELSE IF z_match # <<>> THEN <<z_match[1] - 100>>
        ELSE <<>>

FoundBmd(text) == InRange(FirstMatch(text, _BMD_RE), 300, 1800)

\* the keys added to extracted_data after the 14 clinical fields
EvidenceKeys(text) ==
    (IF InRange(FirstMatch(text, _T_SCORE_RE), -600, 300) # <<>> THEN {"T-score"}
     ELSE IF InRange(FirstMatch(text, _Z_SCORE_RE), -500, 300) # <<>> THEN {"Z-score"}
     ELSE {})
    \cup (IF FoundBmd(text) # <<>> THEN {"BMD"} ELSE {})
    \cup (IF KeywordScan(text, 1, "", 0)[1] # "" THEN {"Diagnosis (keyword)"} ELSE {})

Coverage_all_keys(text) == Cardinality(FieldKeys(text) \cup EvidenceKeys(text))

\* coverage = len(extracted_data), taken before the direct evidence is added
Coverage(text) == Cardinality(FieldKeys(text))

Or(r, default) == IF r # <<>> THEN r[1] ELSE default

\* path A with every missing field filled by 0
PathAFeatures_zero_defaults(text) ==
    LET fm == FieldMap(text)
    IN  [i \in 1..14 |-> Or(fm[i], 0)]

\* the default-filled 14-field vector of path A
PathAFeatures(text) ==
    LET fm     == FieldMap(text)
        age    == Or(fm[1], 550)
        gender == Or(fm[2], 0)
        weight == Or(fm[3], 650)
        height == Or(fm[4], 1630)
        bmi_v  == Or(fm[5], BmiOf(weight, height))
        meno   == Or(fm[13], IF gender = 0 /\ age >= 500 THEN 10 ELSE 0)
    IN  <<age, gender, weight, height, bmi_v, Or(fm[6], 10), Or(fm[7], 10),
          Or(fm[8], 10), Or(fm[9], 0), Or(fm[10], 0), Or(fm[11], 0),
          Or(fm[12], 0), meno, Or(fm[14], 0)>>

Src(text, n) == [text |-> text, n |-> n]

\* analyse_report(content, filename) ->
\*   (label, confidence, t_score, bmd, evidence_source, extracted_data)
analyse_report(d) ==
    LET text      == extract_text(d)
        coverage  == Coverage(text)
        found_t   == FoundT(text)
        found_bmd == FoundBmd(text)
        kw        == KeywordScan(text, 1, "", 0)
        extracted == FieldKeys(text) \cup EvidenceKeys(text)
        fb        == _hash_fallback(d)
    IN  IF text = <<>>
            THEN <<fb[1], fb[2], fb[3], fb[4],
                   Src("No readable text found in file", -1), {}>>
        ELSE IF coverage >= _MIN_FEATURES_FOR_MANUAL
            THEN LET sc == score_features(PathAFeatures(text))
                 IN  <<sc[1], sc[2],
                       IF found_t # <<>> THEN found_t[1] ELSE sc[3],
                       IF found_bmd # <<>> THEN found_bmd[1] ELSE sc[4],
                       Src("Clinical data extracted", coverage), extracted>>
        ELSE IF found_t # <<>>
            THEN LET band == _label_from_t(found_t[1])
                     esc  == kw[2] >= 25 /\ band[1] = "Osteopenia"
                 IN  <<IF esc THEN "Osteoporosis" ELSE band[1],
                       IF esc THEN Min(8800, band[2] + 600) ELSE band[2],
                       found_t[1],
                       IF found_bmd # <<>> THEN found_bmd[1] ELSE _bmd_from_t(found_t[1]),
                       Src("T-score from report", coverage), extracted>>
        ELSE IF found_bmd # <<>>
            THEN LET derived_t == _t_from_bmd(found_bmd[1])
                     band      == _label_from_t(derived_t)
                 IN  <<band[1], band[2], derived_t, found_bmd[1],
                       Src("BMD from report", coverage), extracted>>
        ELSE IF kw[1] # ""
            THEN <<kw[1],
                   IF kw[1] = "Osteoporosis" THEN 7800
                   ELSE IF kw[1] = "Osteopenia" THEN 7400 ELSE 7500,
                   IF kw[1] = "Osteoporosis" THEN -300
                   ELSE IF kw[1] = "Osteopenia" THEN -180 ELSE -40,
                   IF kw[1] = "Osteoporosis" THEN 590
                   ELSE IF kw[1] = "Osteopenia" THEN 730 ELSE 920,
                   Src("Keyword diagnosis only", -1), extracted>>
        ELSE <<fb[1], fb[2], fb[3], fb[4],
               Src("No recognizable clinical data", -1), {}>>

----------------------------------------------------------------------------
(* models/xray_vision_model.py *)
(* An image is the raster left by decoding and down-sampling, held as the  *)
(* number of pixels of each grey value of PixelValues, together with the   *)
(* two features that depend on the layout of the pixels (edge density and  *)
(* histogram entropy).  Intensities are in tenths, ratios in 1e-4 and      *)
(* density_score in 1 / 11,000,000, which makes the weighted sum exact.    *)

_BG_LOW == 20

_BG_HIGH == 248

\* density_score thresholds, in thousandths
_NORMAL_DS == 570

_OSTEOPENIA_DS == 390

PixelValues == <<20, 21, 61, 151, 211, 247, 248>>

\* Image.open(...).convert("L") succeeds
Decodes(img) == img.kind = "raster"

\* bone = [p for p in raw if _BG_LOW < p < _BG_HIGH]
IsBone(v) == _BG_LOW < v /\ v < _BG_HIGH

\* the number of bone pixels p with lo < p < hi
CountWhere(img, lo, hi) ==
    SumSeq([i \in 1..Len(PixelValues) |->
               IF IsBone(PixelValues[i]) /\ lo < PixelValues[i] /\ PixelValues[i] < hi
                   THEN img.hist[i] ELSE 0])

\* bone_sorted[idx], idx counted from 0; i is the grey value reached
RECURSIVE SortedAt(_, _, _)
SortedAt(img, i, idx) ==
    LET here == IF IsBone(PixelValues[i]) THEN img.hist[i] ELSE 0
    IN  IF idx < here \/ i = Len(PixelValues) THEN PixelValues[i]
        ELSE SortedAt(img, i + 1, idx - here)

\* _pct(bone_sorted, p), in tenths
_pct(img, p) ==
    LET n  == CountWhere(img, _BG_LOW, _BG_HIGH)
        lo == ((n - 1) * p) \div 100
        hi == Min(lo + 1, n - 1)
        r  == ((n - 1) * p) % 100
        a  == SortedAt(img, 1, lo)
        b  == SortedAt(img, 1, hi)
    IN  10 * a + RoundDiv(10 * r * (b - a), 100)

\* _extract_features: <<>> when it raises, else <<feats>> with the fields
\* read by the scoring
_extract_features(img) ==
    LET n_raw  == SumSeq(img.hist)
        n_bone == CountWhere(img, _BG_LOW, _BG_HIGH)
        total  == SumSeq([i \in 1..Len(PixelValues) |->
                             IF IsBone(PixelValues[i])
                                 THEN PixelValues[i] * img.hist[i] ELSE 0])
    IN  IF ~Decodes(img) THEN <<>>
        ELSE IF n_raw = 0 THEN <<>>
        ELSE IF n_bone < 100 THEN <<>>
        ELSE << [mean_i       |-> RoundDiv(10 * total, n_bone),
                 p25          |-> _pct(img, 25),
                 cortical     |-> RoundDiv(10000 * CountWhere(img, 200, _BG_HIGH), n_bone),
                 dark_ratio   |-> RoundDiv(10000 * CountWhere(img, _BG_LOW, 80), n_bone),
                 edge_norm    |-> img.edge,
                 entropy_norm |-> img.entropy,
                 n_bone_px    |-> n_bone] >>

Clamp(x, lo, hi) == Max(lo, Min(hi, x))

DensityScore_unclamped(f) ==
    1500 * f.mean_i + 1375 * f.p25 + 220 * f.cortical
        + 165 * (10000 - f.dark_ratio) + 55 * f.edge_norm + 55 * f.entropy_norm

\* density_score = sum(w * s for w, s in zip(weights, subs)), in 1 / 11,000,000
DensityScore(f) ==
    1500 * Clamp(f.mean_i, 0, 2200)                \* 0.30 * mean_i / 220
        + 1375 * Clamp(f.p25, 0, 2000)             \* 0.25 * p25 / 200
        + 220 * Clamp(f.cortical, 0, 10000)        \* 0.20 * cortical
        + 165 * Clamp(10000 - f.dark_ratio, 0, 10000)   \* 0.15 * (1 - dark_ratio)
        + 55 * Clamp(f.edge_norm, 0, 10000)        \* 0.05 * edge_norm
        + 55 * Clamp(f.entropy_norm, 0, 10000)     \* 0.05 * entropy_norm

\* _features_to_biomarkers(f) -> (label, confidence, t_score, bmd)
_features_to_biomarkers(f) ==
    LET ds    == DensityScore(f)
        hi    == _NORMAL_DS * 11000
        lo    == _OSTEOPENIA_DS * 11000
        label == IF ds >= hi THEN "Normal"
                 ELSE IF ds >= lo THEN "Osteopenia" ELSE "Osteoporosis"
        t     == Clamp(RoundDiv(7 * ds - 60500000, 110000), -550, 250)
        bmd   == Clamp(RoundDiv(9500 + 12 * t, 10), 350, 1300)
        \* base and bonus in 1 / 99,000,000
        mid   == (hi + lo) \div 2
        half  == (hi - lo) \div 2
        base  == IF label = "Normal"
                     THEN 9 * (8030000 + Min(2420000, 3 * (ds - hi)))
                 ELSE IF label = "Osteopenia"
                     THEN 9 * 7810000 + 19 * (half - Min(half, Abs(ds - mid)))
                 ELSE 9 * (7920000 + Min(2530000, 3 * (lo - ds)))
        bonus == 9 * Min(440000, 88 * f.edge_norm)
    IN  <<label, RoundDiv(Clamp(base + bonus, 67320000, 95040000), 9900), t, bmd>>

\* Stand-in for hashlib.sha256(image_bytes): <<leading 8 hex digits, next 4
\* hex digits>> scaled to 0..1000
RECURSIVE FoldInts(_, _)
FoldInts(ns, h) ==
    IF ns = <<>> THEN h
    ELSE FoldInts(Tail(ns), (h * 31 + Head(ns)) % 1009)

ImageDigest(img) ==
    LET h == FoldInts(img.hist \o <<img.edge, img.entropy>>,
                 IF img.kind = "raster" THEN 13
                 ELSE IF img.kind = "garbage" THEN 17 ELSE 19)
    IN  <<h % 1001, (h * 17 + 3) % 1001>>

ImageHashBands_document_bands(hv, jit) == HashBands(hv, jit)

\* _fallback_hash given the two digest scalars (thousandths)
ImageHashBands(hv, jit) ==
    LET lab == IF hv < 380 THEN "Normal"
               ELSE IF hv < 720 THEN "Osteopenia" ELSE "Osteoporosis"
        t   == IF hv < 380 THEN RoundDiv(-200 - hv, 10)
               ELSE IF hv < 720 THEN RoundDiv(-12000 - 15 * hv, 100)
               ELSE RoundDiv(-26000 - 15 * hv, 100)
        b   == IF hv < 380 THEN RoundDiv(94000 + 5 * hv, 100)
               ELSE IF hv < 720 THEN RoundDiv(8200 - hv, 10)
               ELSE RoundDiv(62000 - 15 * hv, 100)
        cb  == IF hv < 380 THEN 7100 ELSE IF hv < 720 THEN 7000 ELSE 6900
    IN  <<lab, Min(9300, RoundDiv(10 * cb + 14 * jit, 10)), Max(-550, t), Max(350, b)>>

\* (label, confidence, t_score, bmd, number of metrics)
_fallback_hash(img) ==
    LET r == ImageHashBands(ImageDigest(img)[1], ImageDigest(img)[2])
    IN  <<r[1], r[2], r[3], r[4], 0>>

\* analyse_xray(image_bytes) ->
\*   (label, confidence, t_score, bmd, number of analysis_metrics)
analyse_xray(img) ==
    IF img.kind = "empty" THEN <<"Normal", 7200, -50, 910, 0>>
    ELSE LET feats == _extract_features(img)
         IN  IF feats = <<>> THEN _fallback_hash(img)
             ELSE LET bm == _features_to_biomarkers(feats[1])
                  IN  <<bm[1], bm[2], bm[3], bm[4], 10>>

_CNN_CLASSES == <<"Normal", "Osteopenia", "Osteoporosis">>

_CNN_T_RANGES ==
    [l \in Labels |->
        CASE l = "Normal" -> <<-100, 50>>
          [] l = "Osteopenia" -> <<-250, -100>>
          [] l = "Osteoporosis" -> <<-400, -250>>]

\* _tscore_from_label_confidence(label, confidence)
_tscore_from_label_confidence(label, confidence) ==
    LET lo       == _CNN_T_RANGES[label][1]
        hi       == _CNN_T_RANGES[label][2]
        boundary == IF label = "Normal" THEN hi ELSE lo
        \* boundary + (centre - boundary) * confidence, times 20000
        t20000   == 20000 * boundary + (lo + hi - 2 * boundary) * confidence
    IN  RoundDiv(Clamp(t20000, 20000 * (lo - 50), 20000 * (hi + 50)), 20000)

_bmd_from_tscore(t_score) == Clamp(RoundDiv(9500 + 12 * t_score, 10), 350, 1300)

\* int(np.argmax(proba)) + 1
ArgMax(proba) ==
    CHOOSE i \in DOMAIN proba :
        /\ \A j \in DOMAIN proba : proba[j] <= proba[i]
        /\ \A j \in DOMAIN proba : j < i => proba[j] < proba[i]

\* analyse_xray_cnn(image_bytes, model): <<>> when it raises
analyse_xray_cnn(img, o) ==
    IF ~Decodes(img) \/ o.raises THEN <<>>
    ELSE LET label      == _CNN_CLASSES[ArgMax(o.proba)]
             confidence == o.proba[ArgMax(o.proba)]
             t_score    == _tscore_from_label_confidence(label, confidence)
         IN  <<label, confidence, t_score, _bmd_from_tscore(t_score),
               IF _extract_features(img) = <<>> THEN 7 ELSE 15>>

----------------------------------------------------------------------------
(* app/utils.py *)

\* CLINICAL_DATA[label]["t_score_range"], in 1e-2
t_score_range ==
    [l \in Labels |->
        CASE l = "Normal" -> <<-100, 50>>
          [] l = "Osteopenia" -> <<-250, -100>>
          [] l = "Osteoporosis" -> <<-400, -250>>]

\* CLINICAL_DATA[label]["bmd_range"], in 1e-3
bmd_range ==
    [l \in Labels |->
        CASE l = "Normal" -> <<900, 1100>>
          [] l = "Osteopenia" -> <<700, 900>>
          [] l = "Osteoporosis" -> <<400, 700>>]

\* CLINICAL_DATA: fracture_risk and the lengths of the suggestions and
\* medications lists of each entry
CLINICAL_DATA ==
    [l \in Labels |->
        CASE l = "Normal" ->
                 [fracture_risk |-> "< 5% (Low)", suggestions |-> 6, medications |-> 3]
          [] l = "Osteopenia" ->
                 [fracture_risk |-> "5-20% (Moderate)", suggestions |-> 8, medications |-> 4]
          [] l = "Osteoporosis" ->
                 [fracture_risk |-> "> 20% (High)", suggestions |-> 9, medications |-> 7]]

get_clinical_data_first(label) == CLINICAL_DATA["Normal"]

\* CLINICAL_DATA.get(label, CLINICAL_DATA["Normal"])
get_clinical_data(label) ==
    IF label \in DOMAIN CLINICAL_DATA THEN CLINICAL_DATA[label]
    ELSE CLINICAL_DATA["Normal"]

\* number of states of the process-wide generator of module random
RngStates == 4

\* random.uniform(lo, hi) drawn in generator state r
Uniform(lo, hi, r) == lo + ((hi - lo) * r) \div (RngStates - 1)

NextRng(r) == (r + 1) % RngStates

build_t_score(label, r) == Uniform(t_score_range[label][1], t_score_range[label][2], r)

build_bmd(label, r) == Uniform(bmd_range[label][1], bmd_range[label][2], r)

----------------------------------------------------------------------------
(* app/model_loader.py *)

is_model_loaded == model # None /\ scaler # None /\ columns # None

\* joblib.load of one artifact: a handle, or None when the file is missing
\* or fails to load
Loaded(file) == IF file = "ok" THEN "obj" ELSE None

\* load_xray_model(): the value it leaves in _xray_model, given the state of
\* the weights file; no module of the service calls it
load_xray_model(file) == Loaded(file)

is_xray_model_loaded == xray_model # None

----------------------------------------------------------------------------
(* app/routes/manual.py *)

EXPECTED_FEATURES == 16

_CLASS_LABELS(class_idx) ==
    IF class_idx = 0 THEN "Normal"
    ELSE IF class_idx = 1 THEN "Osteoporosis"
    ELSE "Normal"

\* proba[class_idx] of the 2-entry probability vector, in 1e-4
Proba(o, class_idx) == IF class_idx = 0 THEN o.p0 ELSE 10000 - o.p0

Http(code) == [NoResp EXCEPT !.status = code]

\* PredictionResponse(prediction, confidence, t_score, bmd, ...)
PredictionResponse(label, confidence, t, b, clinical) ==
    [NoResp EXCEPT !.status = "200", !.prediction = label,
                   !.confidence = confidence, !.t_score = t, !.bmd = b,
                   !.fracture_risk = clinical.fracture_risk,
                   !.suggestions = clinical.suggestions,
                   !.medications = clinical.medications]

\* the schema's validator: between 1 and 20 values
check_feature_length(fs) == Len(fs) \in 1..20

\* predict_manual: <<response, generator state afterwards>>
predict_manual(fs, o, r) ==
    IF ~check_feature_length(fs) THEN <<Http("422"), r>>
    ELSE IF Len(fs) # EXPECTED_FEATURES THEN <<Http("422"), r>>
    ELSE IF is_model_loaded
        THEN IF o.raises THEN <<Http("500"), r>>
             ELSE LET label == _CLASS_LABELS(o.cls)
                  IN  <<PredictionResponse(label, Proba(o, o.cls),
                            build_t_score(label, r),
                            build_bmd(label, NextRng(r)),
                            get_clinical_data(label)),
                        NextRng(NextRng(r))>>
    ELSE LET sc == score_features(fs)
         IN  <<PredictionResponse(sc[1], sc[2], sc[3], sc[4],
                   get_clinical_data(sc[1])), r>>

----------------------------------------------------------------------------
(* app/routes/report.py *)

_MAX_FIELDS == 14

_refine_label_with_tscore_model_first(model_class, model_conf, t) ==
    IF model_class = 1 THEN "Osteoporosis"
    ELSE IF model_conf < 7000 THEN "Osteopenia"
    ELSE IF t # <<>>
        THEN IF t[1] <= -250 THEN "Osteoporosis"
             ELSE IF t[1] <= -100 THEN "Osteopenia"
             ELSE "Normal"
    ELSE "Normal"

_refine_label_with_tscore(model_class, model_conf, t) ==
    IF model_class = 1 THEN "Osteoporosis"
    ELSE IF t # <<>>
        THEN IF t[1] <= -250 THEN "Osteoporosis"
             ELSE IF t[1] <= -100 THEN "Osteopenia"
             ELSE "Normal"
    ELSE IF model_conf < 7000 THEN "Osteopenia"
    ELSE "Normal"

\* _compute_report_confidence; base is held as base300 / 300, in 1e-4
_compute_report_confidence(o, final_label, t, n_fields) ==
    LET k == Max(26, Min(40, 26 + n_fields))   \* coverage_factor = k / 40
        base300 ==
            IF final_label = "Osteoporosis"
                THEN IF t # <<>> /\ t[1] <= -250
                         THEN 2400000 + Min(510000, 1700 * (Abs(t[1]) - 250))
                     ELSE 2250000 + 66 * Proba(o, 1)
            ELSE IF final_label = "Osteopenia"
                THEN IF t # <<>>
                         THEN 1860000 + Min(600000, 4000 * (Abs(t[1]) - 100))
                     ELSE 1800000 + 66 * (10000 - Proba(o, 0))
            ELSE IF t # <<>> /\ t[1] > -100
                THEN 2520000 + Min(360000, 1800 * (t[1] + 100))
            ELSE 2340000 + 54 * Proba(o, 0)
        cap == IF final_label = "Osteoporosis" THEN 9700
               ELSE IF final_label = "Osteopenia" THEN 8200 ELSE 9600
    IN  Min(cap, RoundDiv(base300 * k, 12000))

\* predict_report after the content-type and size checks, on the value r
\* returned by analyse_report
predict_report(r, o) ==
    IF Len(r) # 7
        \* the 7-name tuple assignment raises ValueError
        THEN Http("500")
    ELSE LET t_score_val == <<r[3]>>
             n_fields    == Cardinality(r[6])
             ml          == is_model_loaded /\ r[7] # <<>> /\ ~o.raises
             label       == IF ml
                                THEN _refine_label_with_tscore(o.cls, Proba(o, o.cls), t_score_val)
                            ELSE r[1]
             confidence  == IF ml
                                THEN _compute_report_confidence(o, label, t_score_val, n_fields)
                            ELSE r[2]
         IN  [PredictionResponse(label, confidence, r[3], r[4],
                                 get_clinical_data(label))
                 EXCEPT !.src = IF ml THEN "Tabular Ensemble" ELSE r[5].text,
                        !.n = IF ml THEN n_fields ELSE r[5].n,
                        !.extracted = r[6]]

----------------------------------------------------------------------------
(* app/routes/xray.py *)

\* predict_xray after the content-type and size checks
predict_xray(img, o) ==
    LET cnn_r     == IF is_xray_model_loaded THEN analyse_xray_cnn(img, o) ELSE <<>>
        r         == IF cnn_r # <<>> THEN cnn_r ELSE analyse_xray(img)
        evidence  == IF cnn_r # <<>> THEN "EfficientNet-B3 deep CNN"
                     ELSE IF is_xray_model_loaded THEN "Heuristic analysis (CNN error)"
                     ELSE "Heuristic multi-feature image analysis"
    IN  [PredictionResponse(r[1], r[2], r[3], r[4], get_clinical_data(r[1]))
            EXCEPT !.src = evidence, !.n = r[5]]

----------------------------------------------------------------------------
(* app/routes/mri.py *)

\* random.Random(seed).uniform(0.08, 0.12) for seed = 0 .. 99, in 1e-6
mpr_boost ==
    <<113777, 85375, 118241, 89519, 89442, 104916, 111734, 92953, 89068, 98520,
      102856, 98095, 98983, 90360, 84273, 118610, 94461, 100879, 87251, 107085,
      116226, 86598, 118328, 116995, 108494, 95078, 109892, 105940, 84518, 101925,
      101563, 80491, 83097, 102813, 101157, 101948, 93148, 107280, 105579, 88394,
      98344, 95241, 105577, 81542, 96341, 90875, 115531, 94074, 101926, 82675,
      99901, 89741, 119134, 104686, 116546, 83614, 118637, 81703, 103230, 88967,
      92312, 99779, 117120, 97806, 99046, 96590, 82832, 82992, 109667, 107370,
      116391, 92950, 82937, 91193, 114389, 98034, 94822, 111965, 112579, 85813,
      90860, 100238, 85789, 99846, 109261, 87984, 111661, 85838, 95900, 83244,
      88147, 83341, 96842, 116494, 101872, 110406, 94824, 87781, 94256, 96159>>

_boost_mri_confidence_by_label(confidence, label) ==
    LET seed == ((confidence \div 10) + Len(label)) % 100
    IN  Max(Min(10 * confidence + mpr_boost[seed + 1], 987000), 880000)

\* the boost with the draw subtracted instead of added
_boost_mri_confidence_subtracts(confidence, label) ==
    LET seed == (confidence \div 10) % 100
    IN  Max(Min(10 * confidence - mpr_boost[seed + 1], 987000), 880000)

\* _boost_mri_confidence(confidence, label): confidence in 1e-5, result in 1e-6
_boost_mri_confidence(confidence, label) ==
    LET seed    == (confidence \div 10) % 100      \* int(confidence * 10000) % 100
        boosted == Min(10 * confidence + mpr_boost[seed + 1], 987000)
    IN  Max(boosted, 880000)

\* predict_mri after the content-type and size checks
predict_mri(img, o) ==
    LET cnn_r     == IF is_xray_model_loaded THEN analyse_xray_cnn(img, o) ELSE <<>>
        r         == IF cnn_r # <<>> THEN cnn_r ELSE analyse_xray(img)
        boosted   == _boost_mri_confidence(10 * r[2], r[1])
        evidence  == IF cnn_r # <<>> THEN "EfficientNet-B3 + MPR volumetric boost"
                     ELSE IF is_xray_model_loaded
                         THEN "Heuristic MRI/CT analysis + MPR boost (CNN error)"
                     ELSE "Enhanced heuristic MRI/CT analysis + MPR volumetric confidence boost"
    IN  [PredictionResponse(r[1], RoundDiv(boosted, 100), r[3], r[4],
                            get_clinical_data(r[1]))
            EXCEPT !.src = evidence, !.n = r[5] + 6]

----------------------------------------------------------------------------
(* Inputs of the tabular scorer *)

Ages == {390, 400, 550, 650, 700}

\* <<weight, height, bmi>>; bmi 0 means "derive from weight and height"
Bodies == {<<580, 1620, 221>>, <<580, 1620, 0>>, <<450, 1650, 0>>,
           <<500, 0, 0>>, <<480, 1620, 180>>, <<900, 1600, 310>>}

Binary == {0, 10}

Ternary == {0, 10, 20}

Vectors14 ==
    {<<a, g>> \o b \o <<ca, vd, act, sm, al, fh, pf, mp, st>> :
        a \in Ages, g \in Binary, b \in Bodies, ca \in Ternary, vd \in Binary,
        act \in Ternary, sm \in Binary, al \in Ternary, fh \in Binary,
        pf \in Binary, mp \in Binary, st \in Binary}

\* the vectors from which lists of other lengths are cut or extended
LenBases ==
    {<<650, g, 580, 1620, 221, ca, 0, 0, sm, 0, 10, pf, mp, st>> :
        g \in Binary, ca \in {0, 10}, sm \in Binary, pf \in Binary,
        mp \in Binary, st \in Binary}

MaxExtra == 6

ExtraVals == {0, 13}

RECURSIVE SeqsUpTo(_, _)
SeqsUpTo(S, n) ==
    IF n = 0 THEN {<<>>}
    ELSE LET shorter == SeqsUpTo(S, n - 1)
         IN  shorter \cup {Append(s, x) : s \in shorter, x \in S}

Extras == SeqsUpTo(ExtraVals, MaxExtra) \ {<<>>}

ScoreInputs ==
    Vectors14
    \cup {SubSeq(v, 1, n) : v \in LenBases, n \in 0..13}
    \cup {v \o e : v \in LenBases, e \in Extras}

----------------------------------------------------------------------------
(* Inputs of the document extractor *)

MaxTokens == 3

MaxPdfTokens == 2

\* the sequences of at most n distinct elements of S
RECURSIVE InjSeqs(_, _)
InjSeqs(S, n) ==
    IF n = 0 THEN {<<>>}
    ELSE LET shorter == InjSeqs(S, n - 1)
             longer  == {Append(s, x) : s \in shorter, x \in S}
         IN  shorter \cup
             {s \in longer : \A i, j \in DOMAIN s : s[i] = s[j] => i = j}

Docs ==
    {[pdf |-> FALSE, tokens |-> s] : s \in InjSeqs(Tokens, MaxTokens)}
    \cup {[pdf |-> TRUE, tokens |-> s] : s \in InjSeqs(Tokens, MaxPdfTokens)}

----------------------------------------------------------------------------
(* The tabular scorer called as a component *)

InitScore ==
    /\ features \in ScoreInputs
    /\ doc = NoDoc
    /\ model = None /\ scaler = None /\ columns = None
    /\ oracle = NoOracle
    /\ rng = 0
    /\ pc = "idle"
    /\ resp = NoResp
    /\ prev = NoPrev
    /\ image = NoImage /\ xray_model = None /\ cnn = NoCnn /\ arg = NoArg

ScoreFeatures ==
    /\ pc = "idle"
    /\ resp' = Returned(score_features(features))
    /\ pc' = "done"
    /\ UNCHANGED <<features, doc, model, scaler, columns, oracle, rng, prev,
                 image, xray_model, cnn, arg>>

\* the same patient scored again at a later age
ScoreOlder ==
    /\ pc = "done"
    /\ Len(features) = 14
    /\ \E a \in Ages :
        /\ a >= features[1]
        /\ features' = [features EXCEPT ![1] = a]
        /\ resp' = Returned(score_features(features'))
        /\ prev' = [features |-> features, resp |-> resp]
    /\ pc' = "rescored"
    /\ UNCHANGED <<doc, model, scaler, columns, oracle, rng,
                 image, xray_model, cnn, arg>>

NextScore == ScoreFeatures \/ ScoreOlder

SpecScore == InitScore /\ [][NextScore]_vars

----------------------------------------------------------------------------
(* The document extractor called as a component *)

\* the 6-tuple returned by analyse_report
Analysed(t) ==
    [Returned(t) EXCEPT !.src = t[5].text, !.n = t[5].n, !.extracted = t[6]]

InitAnalyse ==
    /\ features = <<>>
    /\ doc \in Docs
    /\ model = None /\ scaler = None /\ columns = None
    /\ oracle = NoOracle
    /\ rng = 0
    /\ pc = "idle"
    /\ resp = NoResp
    /\ prev = NoPrev
    /\ image = NoImage /\ xray_model = None /\ cnn = NoCnn /\ arg = NoArg

AnalyseReport ==
    /\ pc = "idle"
    /\ resp' = Analysed(analyse_report(doc))
    /\ pc' = "done"
    /\ UNCHANGED <<features, doc, model, scaler, columns, oracle, rng, prev,
                 image, xray_model, cnn, arg>>

NextAnalyse == AnalyseReport

SpecAnalyse == InitAnalyse /\ [][NextAnalyse]_vars

----------------------------------------------------------------------------
(* The service: startup, then the manual route *)

ArtifactStates == {"ok", "missing", "corrupt"}

\* what the tabular model does when called: raise, or a class and P(Normal)
Oracles ==
    {[raises |-> TRUE, cls |-> 0, p0 |-> 0],
     [raises |-> FALSE, cls |-> 0, p0 |-> 5500],
     [raises |-> FALSE, cls |-> 1, p0 |-> 2000]}

\* the base vector whose prefixes and extensions give every list length
LengthBase == <<650, 0, 580, 1620, 221, 10, 0, 0, 0, 0, 10, 10, 10, 0>>

ManualInputs ==
    LenBases
    \cup {v \o <<x, y>> : v \in LenBases, x \in ExtraVals, y \in ExtraVals}
    \cup {SubSeq(LengthBase \o [i \in 1..(MaxExtra + 1) |-> 13], 1, n) :
              n \in 0..(14 + MaxExtra + 1)}

\* load_model(), called by lifespan at startup
LoadModel ==
    /\ pc = "startup"
    /\ \E mf \in ArtifactStates, sf \in ArtifactStates, cf \in ArtifactStates :
        /\ model' = Loaded(mf)
        /\ scaler' = Loaded(sf)
        /\ columns' = Loaded(cf)
    /\ pc' = "idle"
    /\ UNCHANGED <<features, doc, oracle, rng, resp, prev,
                 image, xray_model, cnn, arg>>

InitManual ==
    /\ features \in ManualInputs
    /\ doc = NoDoc
    /\ model = None /\ scaler = None /\ columns = None
    /\ oracle \in Oracles
    /\ rng \in 0..(RngStates - 1)
    /\ pc = "startup"
    /\ resp = NoResp
    /\ prev = NoPrev
    /\ image = NoImage /\ xray_model = None /\ cnn = NoCnn /\ arg = NoArg

\* POST /predict/manual
PredictManual ==
    /\ pc = "idle"
    /\ LET out == predict_manual(features, oracle, rng)
       IN  resp' = out[1] /\ rng' = out[2]
    /\ pc' = "done"
    /\ UNCHANGED <<features, doc, model, scaler, columns, oracle, prev,
                 image, xray_model, cnn, arg>>

\* the client sends the same request once more
RepeatRequest ==
    /\ pc = "done"
    /\ prev = NoPrev
    /\ prev' = [features |-> features, resp |-> resp]
    /\ pc' = "idle"
    /\ UNCHANGED <<features, doc, model, scaler, columns, oracle, rng, resp,
                 image, xray_model, cnn, arg>>

NextManual == LoadModel \/ PredictManual \/ RepeatRequest

SpecManual == InitManual /\ [][NextManual]_vars

----------------------------------------------------------------------------
(* The service: startup, then the report route *)

\* uploads: every document with an allowed type and size, and one upload
\* refused for each of the two checks
Uploads ==
    {[pdf |-> d.pdf, tokens |-> d.tokens, upload |-> "ok"] : d \in Docs}
    \cup {[pdf |-> FALSE, tokens |-> <<"t28", "frac">>, upload |-> u] :
              u \in {"badtype", "toolarge"}}

InitReport ==
    /\ features = <<>>
    /\ doc \in Uploads
    /\ model = None /\ scaler = None /\ columns = None
    /\ oracle \in Oracles
    /\ rng = 0
    /\ pc = "startup"
    /\ resp = NoResp
    /\ prev = NoPrev
    /\ image = NoImage /\ xray_model = None /\ cnn = NoCnn /\ arg = NoArg

\* POST /predict/report
PredictReport ==
    /\ pc = "idle"
    /\ resp' = IF doc.upload = "badtype" THEN Http("415")
               ELSE IF doc.upload = "toolarge" THEN Http("413")
               ELSE predict_report(analyse_report(doc), oracle)
    /\ pc' = "done"
    /\ UNCHANGED <<features, doc, model, scaler, columns, oracle, rng, prev,
                 image, xray_model, cnn, arg>>

NextReport == LoadModel \/ PredictReport

SpecReport == InitReport /\ [][NextReport]_vars

----------------------------------------------------------------------------
(* The image analysers called directly *)

\* the number of pixels of the tissue classes that decide the features
BonePixels == 300

\* decoded rasters as histograms over PixelValues, with the edge energy and
\* the entropy their layout gives; undecodable bytes; the empty byte string
Images ==
    {i \in {[kind |-> "raster", hist |-> <<a, b, c, d, e, f, g>>, edge |-> ed,
             entropy |-> en] :
               a \in {0, 500}, b \in {0, 99}, c \in {0, 1, BonePixels},
               d \in {0, BonePixels}, e \in {0, 1, BonePixels}, f \in {0, 101},
               g \in {0, 500}, ed \in {0, 3000, 10000}, en \in {0, 6000}} :
        SumSeq(i.hist) > 0}
    \cup {[kind |-> "garbage", hist |-> <<0, 0, 0, 0, 0, 0, 0>>, edge |-> e,
           entropy |-> 0] : e \in {0, 1, 2, 3}}
    \cup {NoImage}

\* what the network does with a decoded image
CnnOracles ==
    {[raises |-> TRUE, proba |-> <<10000, 0, 0>>]}
    \cup {[raises |-> FALSE, proba |-> p] :
            p \in {<<9001, 499, 500>>, <<3401, 3300, 3299>>, <<499, 9001, 500>>,
                   <<3000, 4000, 3000>>, <<0, 0, 10000>>, <<3299, 3300, 3401>>,
                   <<4999, 4999, 2>>}}

\* confidences handed to _tscore_from_label_confidence directly (1e-4)
CnnConfidences == {0, 1, 2500, 3334, 5001, 7501, 9999, 10000}

\* feature dictionaries handed to _features_to_biomarkers directly
FeatureDicts ==
    [mean_i : {0, 1111, 2200, 2470}, p25 : {0, 1003, 2000, 2400},
     cortical : {0, 1000, 3001, 10000}, dark_ratio : {0, 5001, 10000},
     edge_norm : {0, 3001, 10000}, entropy_norm : {0, 6001},
     n_bone_px : {BonePixels}]

InitImage ==
    /\ features = <<>>
    /\ doc = NoDoc
    /\ model = None /\ scaler = None /\ columns = None
    /\ oracle = NoOracle
    /\ rng = 0
    /\ pc = "idle"
    /\ resp = NoResp
    /\ prev = NoPrev
    /\ xray_model = None
    /\ \/ /\ image \in Images /\ cnn = NoCnn
          /\ arg = [fn |-> "analyse_xray"]
       \/ /\ image \in Images /\ cnn \in CnnOracles
          /\ arg = [fn |-> "analyse_xray_cnn"]
       \/ /\ image = NoImage /\ cnn = NoCnn
          /\ arg \in [fn : {"_features_to_biomarkers"}, f : FeatureDicts]
       \/ /\ image = NoImage /\ cnn = NoCnn
          /\ arg \in [fn : {"_tscore_from_label_confidence"}, label : Labels,
                      confidence : CnnConfidences]

\* label, confidence, t_score, bmd, metrics = analyse_xray(image_bytes)
AnalyseXray ==
    /\ pc = "idle"
    /\ arg.fn = "analyse_xray"
    /\ resp' = [Returned(analyse_xray(image)) EXCEPT !.n = analyse_xray(image)[5]]
    /\ pc' = "done"
    /\ UNCHANGED <<features, doc, model, scaler, columns, oracle, rng, prev,
                 image, xray_model, cnn, arg>>

\* analyse_xray_cnn(image_bytes, model), which returns or raises
AnalyseXrayCnn ==
    /\ pc = "idle"
    /\ arg.fn = "analyse_xray_cnn"
    /\ LET r == analyse_xray_cnn(image, cnn)
       IN  resp' = IF r = <<>> THEN [NoResp EXCEPT !.status = "raised"]
                   ELSE [Returned(r) EXCEPT !.n = r[5]]
    /\ pc' = "done"
    /\ UNCHANGED <<features, doc, model, scaler, columns, oracle, rng, prev,
                 image, xray_model, cnn, arg>>

\* label, confidence, t_score, bmd = _features_to_biomarkers(f)
FeaturesToBiomarkers ==
    /\ pc = "idle"
    /\ arg.fn = "_features_to_biomarkers"
    /\ resp' = Returned(_features_to_biomarkers(arg.f))
    /\ pc' = "done"
    /\ UNCHANGED <<features, doc, model, scaler, columns, oracle, rng, prev,
                 image, xray_model, cnn, arg>>

\* t_score = _tscore_from_label_confidence(label, confidence);
\* bmd = _bmd_from_tscore(t_score)
TscoreFromLabelConfidence ==
    /\ pc = "idle"
    /\ arg.fn = "_tscore_from_label_confidence"
    /\ LET t_score == _tscore_from_label_confidence(arg.label, arg.confidence)
       IN  resp' = [NoResp EXCEPT !.status = "returned",
                                  !.prediction = arg.label,
                                  !.confidence = arg.confidence,
                                  !.t_score = t_score,
                                  !.bmd = _bmd_from_tscore(t_score)]
    /\ pc' = "done"
    /\ UNCHANGED <<features, doc, model, scaler, columns, oracle, rng, prev,
                 image, xray_model, cnn, arg>>

NextImage ==
    AnalyseXray \/ AnalyseXrayCnn \/ FeaturesToBiomarkers
        \/ TscoreFromLabelConfidence

SpecImage == InitImage /\ [][NextImage]_vars

----------------------------------------------------------------------------
(* Every component that emits a (t_score, bmd) pair, called directly *)

InitEstimate ==
    /\ model = None /\ scaler = None /\ columns = None
    /\ oracle = NoOracle
    /\ rng = 0
    /\ pc = "idle"
    /\ resp = NoResp
    /\ prev = NoPrev
    /\ xray_model = None
    /\ \/ /\ arg = [fn |-> "score_features"]
          /\ features \in LenBases
          /\ doc = NoDoc /\ image = NoImage /\ cnn = NoCnn
       \/ /\ arg = [fn |-> "analyse_report"]
          /\ doc \in Docs
          /\ features = <<>> /\ image = NoImage /\ cnn = NoCnn
       \/ /\ arg = [fn |-> "analyse_xray"]
          /\ image \in Images
          /\ features = <<>> /\ doc = NoDoc /\ cnn = NoCnn
       \/ /\ arg = [fn |-> "analyse_xray_cnn"]
          /\ image \in Images /\ cnn \in CnnOracles
          /\ features = <<>> /\ doc = NoDoc

CallScoreFeatures == arg.fn = "score_features" /\ ScoreFeatures

CallAnalyseReport == arg.fn = "analyse_report" /\ AnalyseReport

NextEstimate ==
    CallScoreFeatures \/ CallAnalyseReport \/ AnalyseXray \/ AnalyseXrayCnn

SpecEstimate == InitEstimate /\ [][NextEstimate]_vars

----------------------------------------------------------------------------
(* The label refinement called directly *)

\* model class, probability of the predicted class (1e-4), optional T-score
RefineArgs ==
    [fn : {"_refine_label_with_tscore"}, model_class : {0, 1},
     model_conf : {5000, 5500, 6999, 7000, 7001, 9000, 10000},
     t_score : {<<>>} \cup {<<v>> : v \in {-400, -251, -250, -249, -101,
                                            -100, -99, 0, 150}}]

InitRefine ==
    /\ features = <<>>
    /\ doc = NoDoc
    /\ model = None /\ scaler = None /\ columns = None
    /\ oracle = NoOracle
    /\ rng = 0
    /\ pc = "idle"
    /\ resp = NoResp
    /\ prev = NoPrev
    /\ image = NoImage /\ xray_model = None /\ cnn = NoCnn
    /\ arg \in RefineArgs

\* final_label = _refine_label_with_tscore(class_idx, model_conf, t_score)
RefineLabel ==
    /\ pc = "idle"
    /\ arg.fn = "_refine_label_with_tscore"
    /\ resp' = [NoResp EXCEPT
                   !.status = "returned",
                   !.prediction = _refine_label_with_tscore(
                                      arg.model_class, arg.model_conf, arg.t_score)]
    /\ pc' = "done"
    /\ UNCHANGED <<features, doc, model, scaler, columns, oracle, rng, prev,
                 image, xray_model, cnn, arg>>

NextRefine == RefineLabel

SpecRefine == InitRefine /\ [][NextRefine]_vars

----------------------------------------------------------------------------
(* The two fallback generators called directly; the input bytes are given by *)
(* the two scalars read from their digest                                    *)

\* the number of steps of the grid of hash scalars over [0, 1]
HashSteps == 200

HashGrid == {(k * 1000) \div HashSteps : k \in 0..HashSteps}

\* scalars on both sides of every band border
BandSamples == {0, 379, 380, 399, 400, 719, 720, 749, 750, 1000}

FallbackArgs ==
    [fn : {"_hash_fallback", "_fallback_hash"}, hash_val : HashGrid,
     jitter : {0, 500, 1000}]

InitFallback ==
    /\ features = <<>>
    /\ doc = NoDoc
    /\ model = None /\ scaler = None /\ columns = None
    /\ oracle = NoOracle
    /\ rng = 0
    /\ pc = "idle"
    /\ resp = NoResp
    /\ prev = NoPrev
    /\ image = NoImage /\ xray_model = None /\ cnn = NoCnn
    /\ arg \in FallbackArgs

\* _hash_fallback(content, filename) of the document extractor
DocumentFallback ==
    /\ pc = "idle"
    /\ arg.fn = "_hash_fallback"
    /\ resp' = Returned(HashBands(arg.hash_val, arg.jitter))
    /\ pc' = "done"
    /\ UNCHANGED <<features, doc, model, scaler, columns, oracle, rng, prev,
                 image, xray_model, cnn, arg>>

\* _fallback_hash(image_bytes) of the image analyser
ImageFallback ==
    /\ pc = "idle"
    /\ arg.fn = "_fallback_hash"
    /\ resp' = Returned(ImageHashBands(arg.hash_val, arg.jitter))
    /\ pc' = "done"
    /\ UNCHANGED <<features, doc, model, scaler, columns, oracle, rng, prev,
                 image, xray_model, cnn, arg>>

\* the same call is made once more
CallAgain ==
    /\ pc = "done"
    /\ prev = NoPrev
    /\ prev' = [features |-> features, resp |-> resp, arg |-> arg]
    /\ pc' = "idle"
    /\ UNCHANGED <<features, doc, model, scaler, columns, oracle, rng, resp,
                 image, xray_model, cnn, arg>>

\* the generator is called on other bytes
OtherBytes ==
    /\ pc = "done"
    /\ prev = NoPrev
    /\ \E hv \in BandSamples :
        arg' = [arg EXCEPT !.hash_val = hv, !.jitter = 0]
    /\ prev' = [features |-> features, resp |-> resp, arg |-> arg]
    /\ pc' = "idle"
    /\ UNCHANGED <<features, doc, model, scaler, columns, oracle, rng, resp,
                 image, xray_model, cnn>>

NextFallback == DocumentFallback \/ ImageFallback \/ CallAgain \/ OtherBytes

SpecFallback == InitFallback /\ [][NextFallback]_vars

----------------------------------------------------------------------------
(* The MRI/CT confidence boost called directly *)

\* the number of steps of the grid of confidences over [0, 1]
ConfSteps == 701

\* confidences in 1e-5
ConfGrid == {(k * 100000) \div ConfSteps : k \in 0..ConfSteps}

BoostArgs ==
    [fn : {"_boost_mri_confidence"}, confidence : ConfGrid, label : Labels]

InitBoost ==
    /\ features = <<>>
    /\ doc = NoDoc
    /\ model = None /\ scaler = None /\ columns = None
    /\ oracle = NoOracle
    /\ rng = 0
    /\ pc = "idle"
    /\ resp = NoResp
    /\ prev = NoPrev
    /\ image = NoImage /\ xray_model = None /\ cnn = NoCnn
    /\ arg \in BoostArgs

\* confidence = _boost_mri_confidence(confidence, label); the result is
\* held in 1e-6
BoostConfidence ==
    /\ pc = "idle"
    /\ arg.fn = "_boost_mri_confidence"
    /\ resp' = [NoResp EXCEPT
                   !.status = "returned",
                   !.confidence = _boost_mri_confidence(arg.confidence, arg.label)]
    /\ pc' = "done"
    /\ UNCHANGED <<features, doc, model, scaler, columns, oracle, rng, prev,
                 image, xray_model, cnn, arg>>

\* the boost is called with the same confidence and another label
OtherLabel ==
    /\ pc = "done"
    /\ prev = NoPrev
    /\ arg.fn = "_boost_mri_confidence"
    /\ \E l \in Labels \ {arg.label} : arg' = [arg EXCEPT !.label = l]
    /\ prev' = [features |-> features, resp |-> resp, arg |-> arg]
    /\ pc' = "idle"
    /\ UNCHANGED <<features, doc, model, scaler, columns, oracle, rng, resp,
                 image, xray_model, cnn>>

\* the boost is called with a confidence 0.01 higher, which has the same
\* int(confidence * 10000) % 100
OtherConfidence ==
    /\ pc = "done"
    /\ prev = NoPrev
    /\ arg.fn = "_boost_mri_confidence"
    /\ arg.confidence + 1000 <= 100000
    /\ arg' = [arg EXCEPT !.confidence = arg.confidence + 1000]
    /\ prev' = [features |-> features, resp |-> resp, arg |-> arg]
    /\ pc' = "idle"
    /\ UNCHANGED <<features, doc, model, scaler, columns, oracle, rng, resp,
                 image, xray_model, cnn>>

NextBoost == BoostConfidence \/ CallAgain \/ OtherLabel \/ OtherConfidence

SpecBoost == InitBoost /\ [][NextBoost]_vars

----------------------------------------------------------------------------
(* The four route handlers and the knowledge-base lookup.  main.py mounts    *)
(* the manual, report and xray routers; predict_mri is called as a function. *)
(* load_xray_model() is never called, so the CNN stays unloaded.             *)

\* image uploads: every image with an allowed type and size, and one upload
\* refused for each of the two checks
ImageUploads ==
    {[kind |-> i.kind, hist |-> i.hist, edge |-> i.edge, entropy |-> i.entropy,
      upload |-> "ok"] : i \in {j \in Images : j.entropy = 0}}
    \cup {[kind |-> "garbage", hist |-> <<0, 0, 0, 0, 0, 0, 0>>, edge |-> 0,
           entropy |-> 0, upload |-> u] : u \in {"badtype", "toolarge"}}

\* document uploads of the report route
ReportUploads ==
    {[pdf |-> FALSE, tokens |-> t, upload |-> u] :
        t \in {<<"t28", "frac">>, <<"kwnorm", "kwop", "filler">>,
               <<"patient", "wt", "ht">>, <<"kwop">>},
        u \in {"ok", "badtype", "toolarge"}}

\* the weights file of the imaging network at startup, and what the network
\* would do with a decoded image
XrayWeights ==
    {[raises |-> o.raises, proba |-> o.proba, file |-> f] :
        o \in {c \in CnnOracles : c.raises \/ c.proba[2] = 4000},
        f \in ArtifactStates}

\* labels handed to get_clinical_data
LookupLabels == Labels \cup {"Unknown", "osteoporosis", ""}

InitRoutes ==
    /\ model = None /\ scaler = None /\ columns = None
    /\ xray_model = None
    /\ rng = 0
    /\ pc = "startup"
    /\ resp = NoResp
    /\ prev = NoPrev
    /\ \/ /\ arg = [fn |-> "predict_manual"]
          /\ features \in ManualInputs /\ oracle \in Oracles
          /\ doc = NoDoc /\ image = NoImage /\ cnn = NoCnn
       \/ /\ arg = [fn |-> "predict_report"]
          /\ doc \in ReportUploads /\ oracle \in Oracles
          /\ features = <<>> /\ image = NoImage /\ cnn = NoCnn
       \/ /\ arg \in [fn : {"predict_xray", "predict_mri"}]
          /\ image \in ImageUploads /\ oracle = NoOracle
          /\ cnn \in XrayWeights
          /\ features = <<>> /\ doc = NoDoc
       \/ /\ arg \in [fn : {"get_clinical_data"}, label : LookupLabels]
          /\ oracle = NoOracle /\ cnn = NoCnn
          /\ features = <<>> /\ doc = NoDoc /\ image = NoImage

RoutePredictManual == arg.fn = "predict_manual" /\ PredictManual

RoutePredictReport == arg.fn = "predict_report" /\ PredictReport

\* POST /predict/xray
PredictXray ==
    /\ pc = "idle"
    /\ arg.fn = "predict_xray"
    /\ resp' = IF image.upload = "badtype" THEN Http("415")
               ELSE IF image.upload = "toolarge" THEN Http("413")
               ELSE predict_xray(image, cnn)
    /\ pc' = "done"
    /\ UNCHANGED <<features, doc, model, scaler, columns, oracle, rng, prev,
                 image, xray_model, cnn, arg>>

\* the handler of POST /predict/mri
PredictMri ==
    /\ pc = "idle"
    /\ arg.fn = "predict_mri"
    /\ resp' = IF image.upload = "badtype" THEN Http("415")
               ELSE IF image.upload = "toolarge" THEN Http("413")
               ELSE predict_mri(image, cnn)
    /\ pc' = "done"
    /\ UNCHANGED <<features, doc, model, scaler, columns, oracle, rng, prev,
                 image, xray_model, cnn, arg>>

\* clinical = get_clinical_data(label)
GetClinicalData ==
    /\ pc = "idle"
    /\ arg.fn = "get_clinical_data"
    /\ LET clinical == get_clinical_data(arg.label)
       IN  resp' = [NoResp EXCEPT !.status = "returned",
                                  !.fracture_risk = clinical.fracture_risk,
                                  !.suggestions = clinical.suggestions,
                                  !.medications = clinical.medications]
    /\ pc' = "done"
    /\ UNCHANGED <<features, doc, model, scaler, columns, oracle, rng, prev,
                 image, xray_model, cnn, arg>>

NextRoutes ==
    \/ LoadModel
    \/ RoutePredictManual
    \/ RoutePredictReport
    \/ PredictXray
    \/ PredictMri
    \/ GetClinicalData

SpecRoutes == InitRoutes /\ [][NextRoutes]_vars

----------------------------------------------------------------------------
(* The report confidence called directly, as the report route calls it *)

MaxFieldCount == 16

\* model class, P(Normal) in 1e-4, optional T-score, number of extracted fields
ConfidenceArgs ==
    [fn : {"_compute_report_confidence"}, model_class : {0, 1},
     p0 : {1, 1001, 3001, 5001, 6999, 7001, 9001, 9999},
     t_score : {<<>>} \cup {<<v>> : v \in {-600, -550, -401, -251, -250, -249,
                                            -101, -100, -96, 0, 100, 300}},
     n_fields : 0..MaxFieldCount]

InitConfidence ==
    /\ features = <<>>
    /\ doc = NoDoc
    /\ model = None /\ scaler = None /\ columns = None
    /\ oracle = NoOracle
    /\ rng = 0
    /\ pc = "idle"
    /\ resp = NoResp
    /\ prev = NoPrev
    /\ image = NoImage /\ xray_model = None /\ cnn = NoCnn
    /\ arg \in ConfidenceArgs

\* label = _refine_label_with_tscore(model_class, model_conf, t_score_val);
\* confidence = _compute_report_confidence(model_class, proba, label,
\*                                         t_score_val, n_fields)
ReportConfidence ==
    /\ pc = "idle"
    /\ arg.fn = "_compute_report_confidence"
    /\ LET o     == [raises |-> FALSE, cls |-> arg.model_class, p0 |-> arg.p0]
           label == _refine_label_with_tscore(arg.model_class,
                                              Proba(o, arg.model_class), arg.t_score)
       IN  resp' = [NoResp EXCEPT
                       !.status = "returned",
                       !.prediction = label,
                       !.confidence = _compute_report_confidence(
                                          o, label, arg.t_score, arg.n_fields)]
    /\ pc' = "done"
    /\ UNCHANGED <<features, doc, model, scaler, columns, oracle, rng, prev,
                 image, xray_model, cnn, arg>>

NextConfidence == ReportConfidence

SpecConfidence == InitConfidence /\ [][NextConfidence]_vars

----------------------------------------------------------------------------
(* The tabular model's lifecycle: load_model at startup and again later,   *)
(* with requests to the manual and report routes in between; prev.files    *)
(* records the state of the three artifact files at the latest load        *)

InitLifecycle ==
    /\ model = None /\ scaler = None /\ columns = None
    /\ oracle \in Oracles
    /\ rng = 0
    /\ pc = "startup"
    /\ resp = NoResp
    /\ prev = NoPrev
    /\ image = NoImage /\ xray_model = None /\ cnn = NoCnn
    /\ \/ /\ arg = [fn |-> "predict_manual"]
          /\ features \in ManualInputs /\ doc = NoDoc
       \/ /\ arg = [fn |-> "predict_report"]
          /\ doc \in ReportUploads /\ features = <<>>

\* load_model(), at startup or called again while the service is idle
CallLoadModel ==
    /\ pc \in {"startup", "idle"}
    /\ \E mf \in ArtifactStates, sf \in ArtifactStates, cf \in ArtifactStates :
        /\ model' = Loaded(mf)
        /\ scaler' = Loaded(sf)
        /\ columns' = Loaded(cf)
        /\ prev' = [features |-> prev.features, resp |-> prev.resp,
                    files |-> <<mf, sf, cf>>]
    /\ pc' = "idle"
    /\ UNCHANGED <<features, doc, oracle, rng, resp, image, xray_model, cnn, arg>>

NextLifecycle == CallLoadModel \/ RoutePredictManual \/ RoutePredictReport

SpecLifecycle == InitLifecycle /\ [][NextLifecycle]_vars

----------------------------------------------------------------------------
(* Properties *)

\* the list's first 14 values followed by zeros up to length 14
First14Zeros(fs) == [i \in 1..14 |-> IF i <= Len(fs) THEN fs[i] ELSE 0]

\* the 14 fields lie in their documented domains
InDomain(f) ==
    /\ Len(f) = 14
    /\ \A i \in {2, 7, 9, 11, 12, 13, 14} : f[i] \in {0, 10}
    /\ \A i \in {6, 8, 10} : f[i] \in {0, 10, 20}

\* the documented per-field contributions, in tenths, of a 14-field vector
DocumentedRisk(f) ==
    LET bmiNum == IF f[5] > 50 THEN f[5]
                  ELSE IF f[4] <= 0 THEN 220 ELSE f[3] * 1000000
        bmiDen == IF f[5] > 50 \/ f[4] <= 0 THEN 1 ELSE f[4] * f[4]
        ageBand == IF f[1] < 400 THEN 0 ELSE IF f[1] < 500 THEN 10
                   ELSE IF f[1] < 600 THEN 25 ELSE IF f[1] < 700 THEN 45 ELSE 60
        bmiBand == IF bmiNum < 175 * bmiDen THEN 30
                   ELSE IF bmiNum < 185 * bmiDen THEN 20
                   ELSE IF bmiNum < 220 * bmiDen THEN 10
                   ELSE IF bmiNum < 300 * bmiDen THEN 0 ELSE 5
    IN  ageBand + bmiBand
        + (IF f[2] = 0 THEN 15 ELSE 0)
        + (IF f[13] = 10 THEN 25 ELSE 0)
        + (IF f[6] = 0 THEN 15 ELSE IF f[6] = 10 THEN 5 ELSE 0)
        + (IF f[7] = 0 THEN 15 ELSE 0)
        + (IF f[8] = 0 THEN 15 ELSE IF f[8] = 10 THEN 5 ELSE 0)
        + (IF f[9] = 10 THEN 15 ELSE 0)
        + (IF f[10] = 20 THEN 10 ELSE IF f[10] = 10 THEN 3 ELSE 0)
        + (IF f[11] = 10 THEN 20 ELSE 0)
        + (IF f[12] = 10 THEN 30 ELSE 0)
        + (IF f[14] = 10 THEN 25 ELSE 0)

Severity(label) ==
    IF label = "Normal" THEN 0 ELSE IF label = "Osteopenia" THEN 1 ELSE 2

\* C1: every upload that passes the content-type and size checks is answered
\* by predict_report with a PredictionResponse whose label is one of the
\* three, whatever path analyse_report took and whether or not the tabular
\* model is loaded.
C1_ReportAlwaysAnswers ==
    (pc = "done" /\ doc.upload = "ok")
        => (resp.status = "200" /\ resp.prediction \in Labels)

\* C2: a request repeated with identical input and identical model output
\* gets the identical (prediction, confidence, t_score, bmd).
C2_RepeatIsIdentical ==
    (pc = "done" /\ prev # NoPrev /\ prev.features = features)
        => resp = prev.resp

\* C3: for every 14-field vector with its fields in their documented domains
\* score_features returns one of the three labels and a confidence in
\* [0.70, 0.99].
C3_LabelAndConfidenceRange ==
    (resp.status = "returned" /\ InDomain(features))
        => (/\ resp.prediction \in Labels
            /\ 7000 <= resp.confidence /\ resp.confidence <= 9900)

C3_Witness ==
    /\ resp.status = "returned" /\ InDomain(features)
    /\ resp.prediction = "Osteoporosis" /\ resp.confidence = 9800

\* C4: the label returned by score_features is Normal below risk 6.0,
\* Osteopenia from exactly 6.0 up to exactly 13.0 and Osteoporosis above
\* 13.0, where the risk is the sum of the documented per-field contributions.
C4_ThresholdBoundaries ==
    resp.status = "returned"
        => LET f == First14Zeros(features)
               r == DocumentedRisk(f)
           IN  /\ AccumulatedRisk(f) = r
               /\ r < 60 => resp.prediction = "Normal"
               /\ (60 <= r /\ r <= 130) => resp.prediction = "Osteopenia"
               /\ r > 130 => resp.prediction = "Osteoporosis"

C4_Witness ==
    /\ resp.status = "returned"
    /\ DocumentedRisk(First14Zeros(features)) = 60
    /\ resp.prediction = "Osteopenia"

\* C5: scoring the same vector again with a greater or equal age never
\* lowers the accumulated risk and never gives a less severe label.
C5_AgeMonotone ==
    (pc = "rescored" /\ prev.features[1] <= features[1])
        => (/\ AccumulatedRisk(features) >= AccumulatedRisk(prev.features)
            /\ Severity(resp.prediction) >= Severity(prev.resp.prediction))

C5_Witness ==
    /\ pc = "rescored"
    /\ prev.features[1] = 550 /\ features[1] = 650
    /\ prev.resp.prediction = "Normal" /\ resp.prediction = "Osteopenia"

\* C6: for every list length score_features returns what it returns for the
\* list's first 14 values followed by zeros up to length 14; the values from
\* index 14 on have no influence.
C6_PadTruncate ==
    pc = "done"
        => (/\ resp.status = "returned"
            /\ resp = Returned(score_features(First14Zeros(features))))

C6_Witness ==
    /\ pc = "done" /\ resp.status = "returned"
    /\ Len(features) = 20 /\ features[15] = 13

\* C7: every features list of 1 to 20 values is answered, not rejected, and
\* a list of the 14 documented values is answered, when no tabular model is
\* loaded, with the scorer's result for those values.
C7_DocumentedListAccepted ==
    (pc = "done" /\ Len(features) \in 1..20)
        => (/\ resp.status = "200"
            /\ (Len(features) = 14 /\ ~is_model_loaded)
                   => resp = PredictionResponse(score_features(features)[1],
                                 score_features(features)[2],
                                 score_features(features)[3],
                                 score_features(features)[4],
                                 get_clinical_data(score_features(features)[1])))

\* C8: when the loaded tabular model raises during inference, predict_manual
\* answers with the rule-based scorer's result instead of an error.
C8_InferenceFailureFallsBack ==
    (pc = "done" /\ Len(features) = EXPECTED_FEATURES /\ is_model_loaded
         /\ oracle.raises)
        => (resp.status = "200" /\ resp.prediction = score_features(features)[1])

\* the evidence_source of the path the priority chain selects
ChainPath(text) ==
    IF Cardinality(FieldKeys(text)) >= 4 THEN "Clinical data extracted"
    ELSE IF InRange(FirstMatch(text, _T_SCORE_RE), -600, 300) # <<>>
            \/ InRange(FirstMatch(text, _Z_SCORE_RE), -500, 300) # <<>>
        THEN "T-score from report"
    ELSE IF InRange(FirstMatch(text, _BMD_RE), 300, 1800) # <<>>
        THEN "BMD from report"
    ELSE IF Range(text) \cap {"kwop", "kwpen", "kwnorm"} # {}
        THEN "Keyword diagnosis only"
    ELSE "No recognizable clinical data"

\* C9: on usable text the result comes from path A if at least 4 of the 14
\* clinical fields were recovered, else from B if a T-score was found, else
\* from C if a BMD was found, else from D if a keyword label was found, else
\* from the hash fallback E; T-score, Z-score, BMD and keyword entries never
\* count toward the 4.
C9_PriorityChain ==
    (pc = "done" /\ extract_text(doc) # <<>>)
        => LET text == extract_text(doc)
           IN  /\ resp.src = ChainPath(text)
               /\ resp.src = "Clinical data extracted"
                      => resp.prediction = score_features(PathAFeatures(text))[1]
               /\ resp.src = "T-score from report"
                      => resp.t_score = FoundT(text)[1]
               /\ resp.src = "BMD from report"
                      => resp.bmd = FoundBmd(text)[1]
               /\ resp.src = "Keyword diagnosis only"
                      => resp.prediction = KeywordScan(text, 1, "", 0)[1]
               /\ resp.src = "No recognizable clinical data"
                      => resp.prediction = _hash_fallback(doc)[1]

C9_Witness ==
    /\ pc = "done"
    /\ resp.src = "T-score from report" /\ resp.n = 3
    /\ "T-score" \in resp.extracted

\* the direct T-scores at or below -2.5 stated in the document, in 1e-2
LowTScores(d) ==
    {_T_SCORE_RE[d.tokens[i]] :
        i \in {j \in DOMAIN d.tokens :
                  d.tokens[j] \in DOMAIN _T_SCORE_RE
                  /\ _T_SCORE_RE[d.tokens[j]] <= -250}}

\* C10 as stated: every document containing a direct T-score t <= -2.5 gets
\* t_score = t and the label Osteoporosis, whatever its length and content.
C10_AnyDocumentWithLowT ==
    (pc = "done" /\ LowTScores(doc) # {})
        => (resp.t_score \in LowTScores(doc) /\ resp.prediction = "Osteoporosis")

\* C10 amended: when the text is usable, fewer than 4 clinical fields are
\* recovered and the first T-score in the text is t with -6.0 <= t < -2.5,
\* analyse_report returns t_score = t and the label Osteoporosis.
C10_FirstLowTOnPathB ==
    LET text  == extract_text(doc)
        first == FirstMatch(text, _T_SCORE_RE)
    IN  (pc = "done" /\ text # <<>> /\ Cardinality(FieldKeys(text)) < 4
             /\ first # <<>> /\ -600 <= first[1] /\ first[1] < -250)
            => (resp.t_score = first[1] /\ resp.prediction = "Osteoporosis")

C10_Witness ==
    /\ pc = "done"
    /\ doc.tokens = <<"z", "t28", "frac">>
    /\ resp.t_score = -280 /\ resp.prediction = "Osteoporosis"

\* the phrases stating a number: age, weight, height, T-score, Z-score, BMD
NumericPhrases == {"patient", "wt", "ht", "t58", "t28", "t25", "t18", "tbad", "z", "bmd",
                   "bmdhi"}

\* the label of the keyword list's first pattern that occurs in the text
ListOrderLabel(text) ==
    IF "kwop" \in Range(text) THEN "Osteoporosis"
    ELSE IF "kwpen" \in Range(text) THEN "Osteopenia"
    ELSE IF "kwnorm" \in Range(text) THEN "Normal"
    ELSE ""

\* the literal path D result of a keyword label
KeywordResult(label) ==
    [NoResp EXCEPT
        !.status = "returned", !.prediction = label,
        !.confidence = IF label = "Osteoporosis" THEN 7800
                       ELSE IF label = "Osteopenia" THEN 7400 ELSE 7500,
        !.t_score = IF label = "Osteoporosis" THEN -300
                    ELSE IF label = "Osteopenia" THEN -180 ELSE -40,
        !.bmd = IF label = "Osteoporosis" THEN 590
                ELSE IF label = "Osteopenia" THEN 730 ELSE 920,
        !.src = "Keyword diagnosis only", !.n = -1]

SameResult(a, b) ==
    /\ a.prediction = b.prediction /\ a.confidence = b.confidence
    /\ a.t_score = b.t_score /\ a.bmd = b.bmd /\ a.src = b.src

\* C11 as stated: every document, of any length, whose text contains a
\* labelled keyword and no phrase stating a number gets the literal path D
\* result of the keyword that is first in list order.
C11_KeywordOnlyAnyLength ==
    (pc = "done" /\ ListOrderLabel(doc.tokens) # ""
         /\ Range(doc.tokens) \cap NumericPhrases = {})
        => SameResult(resp, KeywordResult(ListOrderLabel(doc.tokens)))

\* C11 amended: when the text is usable, fewer than 4 clinical fields are
\* recovered, no in-range T-score, Z-score or BMD is found and a labelled
\* keyword occurs, analyse_report takes path D and returns the literal
\* result of the keyword that is first in list order (osteoporosis, then
\* osteopenia, then normal), wherever the keywords stand in the text.
C11_KeywordOnlyPathD ==
    LET text == extract_text(doc)
    IN  (pc = "done" /\ text # <<>> /\ Cardinality(FieldKeys(text)) < 4
             /\ FoundT(text) = <<>> /\ FoundBmd(text) = <<>>
             /\ ListOrderLabel(text) # "")
            => SameResult(resp, KeywordResult(ListOrderLabel(text)))

C11_Witness ==
    /\ pc = "done" /\ ~doc.pdf
    /\ doc.tokens = <<"kwnorm", "kwop", "filler">>
    /\ resp.src = "Keyword diagnosis only"
    /\ resp.prediction = "Osteoporosis" /\ resp.t_score = -300

\* the evidence_source texts, one per path
PathNames ==
    {"No readable text found in file", "Clinical data extracted",
     "T-score from report", "BMD from report", "Keyword diagnosis only",
     "No recognizable clinical data"}

\* C12: on every path the evidence_source names the path that fired and
\* states the count of recovered clinical fields, and the returned
\* field-evidence map contains every field that was recovered.
C12_EvidenceStatesCountAndFields ==
    pc = "done"
        => LET text == extract_text(doc)
           IN  /\ resp.src \in PathNames
               /\ resp.n = Cardinality(FieldKeys(text))
               /\ FieldKeys(text) \subseteq resp.extracted

\* the features scored by the call under way, <<>> when none are scored
ScoredFeatures ==
    IF arg.fn = "_features_to_biomarkers" THEN <<arg.f>>
    ELSE IF arg.fn = "analyse_xray" /\ image.kind # "empty"
        THEN _extract_features(image)
    ELSE <<>>

\* the documented weights, in hundredths
DocumentedWeights == <<30, 25, 20, 15, 5, 5>>

\* the raw value of each sub-score and the raw value at which it reaches 1
SubScoreRaw(f) ==
    <<f.mean_i, f.p25, f.cortical, 10000 - f.dark_ratio, f.edge_norm,
      f.entropy_norm>>

SubScoreFull == <<2200, 2000, 10000, 10000, 10000, 10000>>

\* the weighted sum of the six sub-scores clamped to [0,1], in 1 / 11,000,000
DocumentedDensity(f) ==
    SumSeq([i \in 1..6 |->
               DocumentedWeights[i] * (110000 \div SubScoreFull[i])
                   * Clamp(SubScoreRaw(f)[i], 0, SubScoreFull[i])])

\* C18: for every feature set that is scored, density_score is the sum of the
\* six sub-scores clamped to [0,1] and weighted 0.30, 0.25, 0.20, 0.15, 0.05,
\* 0.05, so it lies in [0,1]; the label is Normal iff density_score >= 0.570,
\* Osteopenia iff 0.390 <= density_score < 0.570, Osteoporosis otherwise; the
\* confidence is in [0.68, 0.96], t_score in [-5.5, 2.5], bmd in [0.35, 1.30]
C18_HeuristicImageScoring ==
    (pc = "done" /\ ScoredFeatures # <<>>)
        => LET ds == DensityScore(ScoredFeatures[1])
           IN  /\ ds = DocumentedDensity(ScoredFeatures[1])
               /\ 0 <= ds /\ ds <= 11000000
               /\ resp.prediction = "Normal" <=> ds >= 6270000
               /\ resp.prediction = "Osteopenia" <=> (4290000 <= ds /\ ds < 6270000)
               /\ resp.prediction = "Osteoporosis" <=> ds < 4290000
               /\ 6800 <= resp.confidence /\ resp.confidence <= 9600
               /\ -550 <= resp.t_score /\ resp.t_score <= 250
               /\ 350 <= resp.bmd /\ resp.bmd <= 1300

C18_Witness ==
    /\ pc = "done"
    /\ arg.fn = "_features_to_biomarkers"
    /\ arg.f.mean_i = 2470 /\ arg.f.p25 = 2400
    /\ resp.prediction = "Osteopenia"

\* the clinical band of a T-score in hundredths
ClinicalBand(t) ==
    IF t >= -100 THEN "Normal"
    ELSE IF t >= -250 THEN "Osteopenia" ELSE "Osteoporosis"

\* C20: for every feature set that is scored, density_score 0.57 gives
\* T-score -1.0, 0.39 gives -2.5, 1.0 gives +1.5 and 0.0 gives -5.5, and the
\* label is the clinical band of the emitted T-score (Normal iff T >= -1.0,
\* Osteopenia iff -2.5 <= T < -1.0, Osteoporosis iff T < -2.5)
C20_LabelAgreesWithTScoreBand ==
    (pc = "done" /\ ScoredFeatures # <<>>)
        => LET ds == DensityScore(ScoredFeatures[1])
           IN  /\ ds = 6270000 => resp.t_score = -100
               /\ ds = 4290000 => resp.t_score = -250
               /\ ds = 11000000 => resp.t_score = 150
               /\ ds = 0 => resp.t_score = -550
               /\ resp.prediction = ClinicalBand(resp.t_score)

\* C15: analyse_xray never raises; for bytes that cannot be decoded or that
\* decode to fewer than 100 pixels strictly between 20 and 248 the result is
\* exactly the image hash fallback's result for those bytes, and with 100 or
\* more such pixels it is the heuristic density result
C15_AnalyseXrayFallsBackToHash ==
    (pc = "done" /\ arg.fn = "analyse_xray")
        => /\ resp.status = "returned"
           /\ IF Decodes(image) /\ CountWhere(image, _BG_LOW, _BG_HIGH) >= 100
                  THEN /\ _extract_features(image) # <<>>
                       /\ resp = [Returned(_features_to_biomarkers(
                                               _extract_features(image)[1]))
                                     EXCEPT !.n = 10]
                  ELSE resp = Returned(_fallback_hash(image))

\* a BMD found in the document is the emitted bmd
DirectBmd ==
    /\ arg.fn = "analyse_report"
    /\ resp.src \in {"Clinical data extracted", "T-score from report",
                     "BMD from report"}
    /\ FoundBmd(extract_text(doc)) # <<>>

\* clamp(0.95 + 0.12 * t_score, 0.35, 1.30) in thousandths
BmdOfT(t) == Clamp(RoundDiv(9500 + 12 * t, 10), 350, 1300)

\* C13: in every result of the scorer, the document analyser, the heuristic
\* image analyser, the CNN variant and both hash fallbacks whose bmd is not a
\* BMD found in the document, bmd equals clamp(0.95 + 0.12 * t_score, 0.35,
\* 1.30) within rounding tolerance (one thousandth)
C13_BmdMatchesTScore ==
    (pc = "done" /\ resp.status = "returned" /\ ~DirectBmd)
        => Abs(resp.bmd - BmdOfT(resp.t_score)) <= 1

\* C14: _refine_label_with_tscore returns Osteoporosis when the class is 1,
\* whatever the T-score; for class 0 with a T-score it returns Osteoporosis if
\* T <= -2.5, Osteopenia if -2.5 < T <= -1.0 and Normal if T > -1.0; for
\* class 0 without a T-score it returns Osteopenia when the confidence on
\* Normal is below 0.70 and Normal when it is 0.70 or more
C14_LabelRefinement ==
    (pc = "done" /\ arg.fn = "_refine_label_with_tscore")
        => /\ resp.status = "returned"
           /\ arg.model_class = 1 => resp.prediction = "Osteoporosis"
           /\ (arg.model_class = 0 /\ arg.t_score # <<>>)
                  => /\ arg.t_score[1] <= -250 => resp.prediction = "Osteoporosis"
                     /\ (-250 < arg.t_score[1] /\ arg.t_score[1] <= -100)
                            => resp.prediction = "Osteopenia"
                     /\ arg.t_score[1] > -100 => resp.prediction = "Normal"
           /\ (arg.model_class = 0 /\ arg.t_score = <<>>)
                  => /\ arg.model_conf < 7000 => resp.prediction = "Osteopenia"
                     /\ arg.model_conf >= 7000 => resp.prediction = "Normal"

C14_Witness ==
    /\ pc = "done"
    /\ arg.model_class = 0 /\ arg.model_conf = 5500 /\ arg.t_score = <<>>
    /\ resp.prediction = "Osteopenia"

\* the band of a hash scalar: documents 0.40 / 0.75, images 0.38 / 0.72
DocumentedBand(a) ==
    LET lo == IF a.fn = "_hash_fallback" THEN 400 ELSE 380
        hi == IF a.fn = "_hash_fallback" THEN 750 ELSE 720
    IN  IF a.hash_val < lo THEN "Normal"
        ELSE IF a.hash_val < hi THEN "Osteopenia" ELSE "Osteoporosis"

\* C16: the document fallback returns Normal for h < 0.40, Osteopenia for
\* 0.40 <= h < 0.75 and Osteoporosis otherwise, the image fallback uses 0.38
\* and 0.72; the same bytes always give the same tuple, two inputs whose
\* scalars fall in different bands get different labels; for every h and
\* jitter the confidence is in [0.69, 0.93], t_score >= -5.5 and bmd >= 0.35
C16_FallbackGenerators ==
    (pc = "done" /\ arg.fn \in {"_hash_fallback", "_fallback_hash"})
        => /\ resp.prediction = DocumentedBand(arg)
           /\ 6900 <= resp.confidence /\ resp.confidence <= 9300
           /\ resp.t_score >= -550
           /\ resp.bmd >= 350
           /\ (prev # NoPrev /\ prev.arg = arg) => resp = prev.resp
           /\ (prev # NoPrev /\ DocumentedBand(prev.arg) # DocumentedBand(arg))
                  => resp.prediction # prev.resp.prediction

C16_Witness ==
    /\ pc = "done"
    /\ prev # NoPrev
    /\ arg.fn = "_fallback_hash"
    /\ prev.arg.hash_val = 380 /\ arg.hash_val = 379
    /\ prev.resp.prediction = "Osteopenia" /\ resp.prediction = "Normal"

\* int(confidence * 10000) mod 100 of a confidence in 1e-5
SeedOf(confidence) == (confidence \div 10) % 100

\* the result lies strictly between the floor and the ceiling
Unclipped(r) == 880000 < r.confidence /\ r.confidence < 987000

\* C17: for every confidence in [0,1] _boost_mri_confidence returns a value
\* in [0.88, 0.987] equal to max(0.88, min(0.987, confidence + b)) with b in
\* [0.08, 0.12]; b is the same for two confidences with the same
\* int(confidence * 10000) mod 100; two calls with the same confidence return
\* the same value, whatever the label
C17_MriBoost ==
    (pc = "done" /\ arg.fn = "_boost_mri_confidence")
        => /\ 880000 <= resp.confidence /\ resp.confidence <= 987000
           /\ \E b \in 80000..120000 :
                  resp.confidence
                      = Max(880000, Min(987000, 10 * arg.confidence + b))
           /\ (prev # NoPrev /\ prev.arg.confidence = arg.confidence)
                  => resp.confidence = prev.resp.confidence
           /\ (prev # NoPrev /\ SeedOf(prev.arg.confidence) = SeedOf(arg.confidence)
                   /\ Unclipped(resp) /\ Unclipped(prev.resp))
                  => resp.confidence - 10 * arg.confidence
                         = prev.resp.confidence - 10 * prev.arg.confidence

C17_Witness ==
    /\ pc = "done"
    /\ prev # NoPrev
    /\ prev.arg.confidence = arg.confidence
    /\ prev.arg.label = "Normal" /\ arg.label = "Osteoporosis"
    /\ Unclipped(resp)

\* the knowledge-base part of a response or of a looked-up entry
ClinicalPart(r) ==
    [fracture_risk |-> r.fracture_risk, suggestions |-> r.suggestions,
     medications |-> r.medications]

\* C19: in every response of the manual, report, xray and mri handlers the
\* fracture_risk, suggestions and medications are those of the knowledge-base
\* entry of the emitted label; get_clinical_data returns one of exactly three
\* entries and gives the Normal entry for every label other than Normal,
\* Osteopenia and Osteoporosis
C19_ClinicalDataOfEmittedLabel ==
    /\ (pc = "done" /\ resp.status = "200")
           => /\ resp.prediction \in Labels
              /\ ClinicalPart(resp) = CLINICAL_DATA[resp.prediction]
    /\ (pc = "done" /\ arg.fn = "get_clinical_data")
           => /\ resp.status = "returned"
              /\ Cardinality({CLINICAL_DATA[l] : l \in Labels}) = 3
              /\ ClinicalPart(resp) \in {CLINICAL_DATA[l] : l \in Labels}
              /\ arg.label \in Labels => ClinicalPart(resp) = CLINICAL_DATA[arg.label]
              /\ arg.label \notin Labels => ClinicalPart(resp) = CLINICAL_DATA["Normal"]

C19_Witness ==
    /\ pc = "done"
    /\ arg.fn = "predict_mri"
    /\ resp.status = "200"
    /\ resp.prediction = "Osteoporosis"
    /\ resp.fracture_risk = "> 20% (High)" /\ resp.medications = 7

\* the clinical confidence range of a label, in 1e-4
ConfidenceRange(label) ==
    IF label = "Osteoporosis" THEN <<7500, 9700>>
    ELSE IF label = "Osteopenia" THEN <<6000, 8200>>
    ELSE <<7800, 9600>>

\* C21: the confidence returned by _compute_report_confidence lies inside the
\* clinical range of the final label (Osteoporosis [0.75, 0.97], Osteopenia
\* [0.60, 0.82], Normal [0.78, 0.96]) for every probability vector, every
\* T-score or none, and every number of extracted fields
C21_ConfidenceInLabelRange ==
    (pc = "done" /\ arg.fn = "_compute_report_confidence")
        => /\ ConfidenceRange(resp.prediction)[1] <= resp.confidence
           /\ resp.confidence <= ConfidenceRange(resp.prediction)[2]

\* the 14-field vector the documentation of path A describes: a recovered
\* value where there is one, else age 55, gender 0 (female), weight 65,
\* height 163, BMI from that weight and height, calcium, vitamin D and
\* activity 1, menopause 1 iff female and aged 50 or more, and 0 elsewhere
DocumentedDefaults(text) ==
    LET fm     == FieldMap(text)
        val(i, dflt) == IF fm[i] = <<>> THEN dflt ELSE fm[i][1]
        age    == val(1, 550)
        gender == val(2, 0)
        weight == val(3, 650)
        height == val(4, 1630)
    IN  [i \in 1..14 |->
            CASE i = 1 -> age
              [] i = 2 -> gender
              [] i = 3 -> weight
              [] i = 4 -> height
              [] i = 5 -> val(5, RoundDiv(weight * 1000000, height * height))
              [] i \in {6, 7, 8} -> val(i, 10)
              [] i = 13 -> val(13, IF gender = 0 /\ age >= 500 THEN 10 ELSE 0)
              [] OTHER -> val(i, 0)]

\* C22: whenever at least 4 clinical fields are recovered, the label and
\* the confidence are exactly those of score_features on the default-filled
\* 14-field vector, t_score is the found (or Z-converted) T-score if there is
\* one and bmd the found BMD if there is one, each otherwise the scorer's
\* value; a found T-score or keyword does not change the label
C22_PathAOverride ==
    (pc = "done" /\ extract_text(doc) # <<>>
         /\ Cardinality(FieldKeys(extract_text(doc))) >= 4)
        => LET text == extract_text(doc)
               sc   == score_features(DocumentedDefaults(text))
           IN  /\ resp.prediction = sc[1]
               /\ resp.confidence = sc[2]
               /\ resp.t_score = IF FoundT(text) # <<>> THEN FoundT(text)[1] ELSE sc[3]
               /\ resp.bmd = IF FoundBmd(text) # <<>> THEN FoundBmd(text)[1] ELSE sc[4]

\* path A with a stated T-score in the Osteoporosis band and a scorer label
\* that is not Osteoporosis
C22_Witness ==
    /\ pc = "done"
    /\ resp.src = "Clinical data extracted"
    /\ "t28" \in Range(doc.tokens) /\ resp.t_score = -280
    /\ resp.prediction # "Osteoporosis"
    /\ resp.bmd = score_features(PathAFeatures(extract_text(doc)))[4]

\* C23: on path B (fewer than 4 fields, a T-score t found) the label is
\* Normal if t >= -1.0, Osteopenia if -2.5 <= t < -1.0, else Osteoporosis;
\* when the keyword weight is 2.5 or more and the band label is Osteopenia,
\* the label becomes Osteoporosis and the confidence min(0.88, band
\* confidence + 0.06), which is never lower than the band confidence; in
\* every other case the band label and band confidence are returned
C23_PathBEscalation ==
    (pc = "done" /\ extract_text(doc) # <<>>
         /\ Cardinality(FieldKeys(extract_text(doc))) < 4
         /\ FoundT(extract_text(doc)) # <<>>)
        => LET text      == extract_text(doc)
               t         == FoundT(text)[1]
               band      == ClinicalBand(t)
               band_conf == _label_from_t(t)[2]
               weight    == KeywordScan(text, 1, "", 0)[2]
           IN  IF weight >= 25 /\ band = "Osteopenia"
                   THEN /\ resp.prediction = "Osteoporosis"
                        /\ resp.confidence = Min(8800, band_conf + 600)
                        /\ resp.confidence >= band_conf
               ELSE /\ resp.prediction = band
                    /\ resp.confidence = band_conf

\* C24: on paths B and C the BMD / T-score pair stays in the plausible
\* clinical range: with an accepted T-score (stated or converted from a
\* Z-score) and no stated BMD, the emitted bmd is 0.95 + 0.12 * T clamped to
\* [0.35, 1.30]; with an accepted BMD and no T-score, the emitted t_score
\* (bmd - 0.95) / 0.12 lies in the accepted T-score range [-6.0, 3.0]
C24_PathsBCStayInClinicalRange ==
    (pc = "done" /\ extract_text(doc) # <<>>
         /\ Cardinality(FieldKeys(extract_text(doc))) < 4)
        => LET text == extract_text(doc)
           IN  /\ (FoundT(text) # <<>> /\ FoundBmd(text) = <<>>)
                      => resp.bmd = BmdOfT(FoundT(text)[1])
               /\ (FoundT(text) = <<>> /\ FoundBmd(text) # <<>>)
                      => (-600 <= resp.t_score /\ resp.t_score <= 300)

\* the T-score a class has at confidence 0 according to the documentation:
\* the border it shares with the neighbouring class
SharedBorder(label) ==
    IF label = "Normal" THEN {-100}
    ELSE IF label = "Osteoporosis" THEN {-250}
    ELSE {-250, -100}

\* C25: the CNN variant's label is the argmax class of the probability
\* vector and its confidence that class's probability; for every label and
\* every confidence in [0, 1] the T-score of _tscore_from_label_confidence
\* lies in the label's clinical range (Normal [-1.0, 0.5], Osteopenia
\* [-2.5, -1.0], Osteoporosis [-4.0, -2.5]), is the range centre at
\* confidence 1 and the border shared with the neighbouring class at
\* confidence 0 (-1.0 for Normal, -2.5 for Osteoporosis); bmd is
\* 0.95 + 0.12 * T clamped to [0.35, 1.30]
C25_CnnTScoreInterpolation ==
    (pc = "done" /\ resp.status = "returned"
         /\ arg.fn \in {"analyse_xray_cnn", "_tscore_from_label_confidence"})
        => LET lo == t_score_range[resp.prediction][1]
               hi == t_score_range[resp.prediction][2]
           IN  /\ arg.fn = "analyse_xray_cnn"
                      => \E i \in 1..3 :
                            /\ resp.prediction = _CNN_CLASSES[i]
                            /\ resp.confidence = cnn.proba[i]
                            /\ \A j \in 1..3 : cnn.proba[j] <= cnn.proba[i]
               /\ lo <= resp.t_score /\ resp.t_score <= hi
               /\ resp.confidence = 10000 => 2 * resp.t_score = lo + hi
               /\ resp.confidence = 0 => resp.t_score \in SharedBorder(resp.prediction)
               /\ resp.bmd = BmdOfT(resp.t_score)

\* C26: load_xray_model is called once at startup, so in every state after
\* startup with a present and loadable weights file is_xray_model_loaded()
\* is true and predict_xray answers from the EfficientNet-B3 path; the
\* heuristic path is taken only when the file is missing, fails to load, or
\* the CNN inference raises
C26_XrayModelLoadedAtStartup ==
    (arg.fn = "predict_xray" /\ pc # "startup")
        => /\ xray_model = load_xray_model(cnn.file)
           /\ cnn.file = "ok" => is_xray_model_loaded
           /\ (pc = "done" /\ resp.status = "200"
                   /\ resp.src # "EfficientNet-B3 deep CNN")
                  => (cnn.file # "ok" \/ cnn.raises \/ ~Decodes(image))

\* C27: after load_model, is_model_loaded() is true iff the model, the
\* scaler and the feature-column list were all loaded, and a load that fails
\* for one artifact leaves no handle from an earlier load; in every state
\* where one of the three is missing, predict_manual and predict_report do
\* not call the model or the scaler and answer with the rule-based result,
\* respectively the extraction result
C27_ModelUnavailableBranch ==
    ("files" \in DOMAIN prev)
        => /\ is_model_loaded <=> prev.files = <<"ok", "ok", "ok">>
           /\ model # None <=> prev.files[1] = "ok"
           /\ scaler # None <=> prev.files[2] = "ok"
           /\ columns # None <=> prev.files[3] = "ok"
           /\ (pc = "done" /\ ~is_model_loaded /\ arg.fn = "predict_manual"
                   /\ Len(features) = EXPECTED_FEATURES)
                  => LET sc == score_features(features)
                     IN  /\ resp.status = "200"
                         /\ resp.prediction = sc[1] /\ resp.confidence = sc[2]
           /\ (pc = "done" /\ ~is_model_loaded /\ arg.fn = "predict_report"
                   /\ doc.upload = "ok")
                  => LET r == analyse_report(doc)
                     IN  /\ resp.status = "200"
                         /\ resp.prediction = r[1] /\ resp.confidence = r[2]

\* C28: the two T-score band mappings agree: for every T-score t, the label
\* of _label_from_t(t) in the document extractor equals the label that
\* _refine_label_with_tscore(0, p, t) gives for model class 0, including at
\* the thresholds t = -1.0 and t = -2.5
C28_BandMappingsAgree ==
    (pc = "done" /\ arg.fn = "_refine_label_with_tscore"
         /\ arg.model_class = 0 /\ arg.t_score # <<>>)
        => resp.prediction = _label_from_t(arg.t_score[1])[1]

\* C29: every fallback result is clinically self-consistent: for every hash
\* scalar, in the document fallback and in the image fallback, the emitted
\* t_score lies in the clinical band of the emitted label (Normal: t >= -1.0;
\* Osteopenia: -2.5 <= t < -1.0; Osteoporosis: t < -2.5)
C29_FallbackTScoreInLabelBand ==
    (pc = "done" /\ arg.fn \in {"_hash_fallback", "_fallback_hash"})
        => resp.prediction = ClinicalBand(resp.t_score)

\* C30: the MRI/CT boost never lowers a confidence: for every confidence
\* predict_mri can hand to _boost_mri_confidence (the heuristic's in
\* [0.68, 0.96], the image fallback's, the empty-input constant 0.72 and a
\* CNN argmax probability anywhere in [1/3, 1.0]) the boosted confidence is
\* at least the input confidence
C30_BoostNeverLowers ==
    (pc = "done" /\ arg.fn = "_boost_mri_confidence" /\ 3 * arg.confidence >= 100000)
        => resp.confidence >= 10 * arg.confidence

\* C30 as it holds: for every such confidence up to the ceiling 0.987 the
\* boosted confidence is at least the input confidence; for a confidence
\* above 0.987, which only a CNN argmax probability can be, the result is the
\* ceiling 0.987
C30_BoostNeverLowersUpToCeiling ==
    (pc = "done" /\ arg.fn = "_boost_mri_confidence" /\ 3 * arg.confidence >= 100000)
        => /\ arg.confidence <= 98700 => resp.confidence >= 10 * arg.confidence
           /\ arg.confidence > 98700 => resp.confidence = 987000

\* a heuristic confidence raised by the draw, between the floor and the ceiling
C30_Witness ==
    /\ pc = "done" /\ arg.fn = "_boost_mri_confidence"
    /\ 68000 <= arg.confidence /\ arg.confidence <= 96000
    /\ Unclipped(resp)
    /\ resp.confidence >= 10 * arg.confidence + 80000

====
